---- MODULE Spec2Model ----
(***************************************************************************)
(* Attempt lifecycle and asynchronous delivery of the recruitment backend. *)
(*                                                                         *)
(* The datastore is the only shared state: the tests table, the            *)
(* test_attempts table, the answer_logs table and the webhook_logs outbox. *)
(* A handler that reads a row, computes in application memory and then     *)
(* writes is modelled twice from the same definitions: as one step (the    *)
(* call running alone: Spec) and as two steps, its read and its write,     *)
(* with the values it read kept in loc[c], so that other handlers, the     *)
(* sweeper and the clock may run in between (SpecRace).                    *)
(*                                                                         *)
(* Time is an integer clock in minutes that steps through the instants of  *)
(* Instants (the first minutes, and the same minutes one hour later).      *)
(* NULL columns of timestamp and numeric type are Null; NULL JSON arrays   *)
(* are the empty sequence; a NULL boolean is the string "null".            *)
(* Columns no handler of the attempt lifecycle branches on (names, phone,  *)
(* metadata, updated_at, time_spent_seconds, grader, comment) are left out.*)
(* update_test edits the two fields of a test the lifecycle reads back:    *)
(* questions and duration_minutes.  The delivery workers of the outbox     *)
(* run in SpecOutbox.                                                      *)
(***************************************************************************)
EXTENDS Integers, Sequences, FiniteSets, TLC

(* ------------------------------ bounds -------------------------------- *)
MaxTime == 1
MaxClients == 2
MaxAttempts == 2
MaxCalls == 4
MaxOutbox == 1
MaxWarnings == 2
MaxJobs == 2
MaxAiWorkers == 2
MaxWorkers == 2

(* ------------------------- program constants -------------------------- *)
Null == -1
MAX_VIOLATIONS == 2
IdleThresholdMinutes == 2
HourMinutes == 60

NoStatus == "none"

Clients == 1..MaxClients
Workers == 1..MaxWorkers
TestIds == {"quiz", "presentation"}
Emails == {"c@example.org"}

(* The instants the clock visits. *)
Instants == (0..MaxTime) \cup {HourMinutes + t : t \in 0..MaxTime}

(* expires_in_hours of the modelled invite requests, per test. *)
InviteHours(test_id) == IF test_id = "quiz" THEN {2} ELSE {1}

(* ----------------------------- questions ------------------------------ *)
Mcq(id, points, correct) ==
    [id |-> id, type |-> "multiple_choice", points |-> points, correct_answer |-> correct]

ShortAnswer(id, points) ==
    [id |-> id, type |-> "short_answer", points |-> points, correct_answer |-> 0]

CodeQuestion(id, points) ==
    [id |-> id, type |-> "code", points |-> points, correct_answer |-> 0]

(* The question lists a test can hold: the one it is created with and the  *)
(* ones update_test can replace it with.                                   *)
QuestionsV1 == << Mcq(1, 1, 0), ShortAnswer(2, 1), ShortAnswer(3, 1) >>
QuestionsV2 == << Mcq(1, 2, 1) >>
QuestionLists == {QuestionsV1, QuestionsV2}

(* JSON answer values: an integer, an object {"selected": n}, a string,    *)
(* null.  A 64-bit integer is kept as two words: it is hi * 2^32 + val,    *)
(* with val its low 32 bits read as a signed 32-bit number.                *)
JWide(hi, n) == [kind |-> "int", val |-> n, hi |-> hi]
JInt(n) == JWide(0, n)
JObj(n) == [kind |-> "object", val |-> n, hi |-> 0]
JStr == [kind |-> "string", val |-> 0, hi |-> 0]
JNull == [kind |-> "null", val |-> 0, hi |-> 0]

(* A JSON number with a fraction or exponent (1.0), for which as_i64() is  *)
(* None, and an object without an integer "selected" field.                *)
JFloat(n) == [kind |-> "float", val |-> n, hi |-> 0]
JEmptyObj == [kind |-> "object_unselected", val |-> 0, hi |-> 0]

Answer(qid, value) == [question_id |-> qid, answer |-> value]

(* ------------------------------ helpers ------------------------------- *)
Min(a, b) == IF a < b THEN a ELSE b

Max(a, b) == IF a > b THEN a ELSE b

Coalesce(v, d) == IF v = Null THEN d ELSE v

\* i32: `+=` on two i32 overflows when the sum leaves MinI32..MaxI32; a
\* build without overflow checks then keeps the low 32 bits of the sum.
MaxI32 == 2147483647

MinI32 == -MaxI32 - 1

AddOverflows(a, b) ==
    \/ b > 0 /\ a > MaxI32 - b
    \/ b < 0 /\ a < MinI32 - b

WrappingAdd(a, b) ==
    IF b > 0 /\ a > MaxI32 - b THEN (a + MinI32) + (b + MinI32)
    ELSE IF b < 0 /\ a < MinI32 - b THEN (a - MinI32) + (b - MinI32)
    ELSE a + b

BoolStr(b) == IF b THEN "true" ELSE "false"

\* Index of the first element of s satisfying the question id, 0 if none.
RECURSIVE FindPos(_, _, _)
FindPos(s, qid, i) ==
    IF i > Len(s) THEN 0
    ELSE IF s[i].question_id = qid THEN i
    ELSE FindPos(s, qid, i + 1)

RECURSIVE SumField(_, _)
SumField(s, i) ==
    IF i > Len(s) THEN 0 ELSE s[i].points_earned + SumField(s, i + 1)

RECURSIVE SumMax(_, _)
SumMax(s, i) ==
    IF i > Len(s) THEN 0 ELSE s[i].max_points + SumMax(s, i + 1)

\* percentage = score / max * 100, 0 when max is 0 (kept to whole percent).
Percentage(score, max) == IF max > 0 THEN (score * 100) \div max ELSE 0

(* --------------------------- grading engine --------------------------- *)
\* The answer given for question_id: the first matching entry, else null.
CandidateAnswer(answers, question_id) ==
    LET pos == FindPos(answers, question_id, 1)
    IN IF pos = 0 THEN JNull ELSE answers[pos].answer

\* Whether as_i64() of the value, or of its "selected" field when it is an
\* object, gives an index.
HasGivenIdx(a) == a.kind \in {"int", "object"}

\* `given_idx as i32`: the low 32 bits of the 64-bit index.
AsI32(a) == a.val

\* A faulty variant of the loop body: every question that is not multiple
\* choice is flagged for review.
GradeOneFlagsUnsupported(q, idx, answers) ==
    LET question_id == Max(q.id, idx)
        a == CandidateAnswer(answers, question_id)
        hit == /\ q.type = "multiple_choice"
               /\ HasGivenIdx(a)
               /\ AsI32(a) = q.correct_answer
    IN [question_id |-> question_id,
        type |-> q.type,
        candidate_answer |-> a,
        points_earned |-> IF hit THEN q.points ELSE 0,
        max_points |-> q.points,
        is_correct |-> hit,
        needs_review |-> (q.type # "multiple_choice")]

GradeOne(q, idx, answers) ==
    LET question_id == Max(q.id, idx)
        a == CandidateAnswer(answers, question_id)
        hit == /\ q.type = "multiple_choice"
               /\ HasGivenIdx(a)
               /\ AsI32(a) = q.correct_answer
    IN [question_id |-> question_id,
        type |-> q.type,
        candidate_answer |-> a,
        points_earned |-> IF hit THEN q.points ELSE 0,
        max_points |-> q.points,
        is_correct |-> hit,
        needs_review |-> (q.type = "short_answer")]

GradedAnswers(questions, answers) ==
    [i \in 1..Len(questions) |-> GradeOne(questions[i], i, answers)]

\* total_max_points += q.points, in i32.
RECURSIVE TotalPoints(_, _)
TotalPoints(questions, i) ==
    IF i > Len(questions) THEN 0
    ELSE WrappingAdd(questions[i].points, TotalPoints(questions, i + 1))

\* earned_points += points_earned, in i32.
RECURSIVE EarnedPoints(_, _)
EarnedPoints(graded, i) ==
    IF i > Len(graded) THEN 0
    ELSE WrappingAdd(graded[i].points_earned, EarnedPoints(graded, i + 1))

\* Whether one of the two `+=` of the loop overflows, the accumulators
\* being total and earned before question i.
RECURSIVE LoopOverflows(_, _, _, _)
LoopOverflows(graded, i, total, earned) ==
    IF i > Len(graded) THEN FALSE
    ELSE \/ AddOverflows(total, graded[i].max_points)
         \/ AddOverflows(earned, graded[i].points_earned)
         \/ LoopOverflows(graded, i + 1, WrappingAdd(total, graded[i].max_points),
                          WrappingAdd(earned, graded[i].points_earned))

AnyNeedsReview(graded) == \E i \in 1..Len(graded) : graded[i].needs_review

\* grade_mcq_only: (earned_points, total_max_points, graded, needs_review)
grade_mcq_only(questions, answers) ==
    LET graded == GradedAnswers(questions, answers)
    IN [earned |-> EarnedPoints(graded, 1),
        max |-> TotalPoints(questions, 1),
        graded |-> graded,
        needs_review |-> \E i \in 1..Len(questions) : questions[i].type = "short_answer"]

\* Whether grade_mcq_only overflows an accumulator on these inputs: a build
\* with overflow checks panics there, one without wraps.
GradingOverflows(questions, answers) ==
    LoopOverflows(GradedAnswers(questions, answers), 1, 0, 0)

(* ------------------------------- state -------------------------------- *)
VARIABLES
    now,           \* Utc::now() / NOW()
    tests,         \* tests table: test id -> row
    attempts,      \* test_attempts table: attempt id -> row (existing rows only)
    next_attempt,  \* number of test_attempts rows inserted so far
    answer_logs,   \* answer_logs table: sequence of rows
    webhook_logs,  \* webhook_logs table (the outbox): sequence of rows
    calls,         \* number of handler calls made so far
    resp,          \* what the most recent handler call returned
    pc,            \* per request slot: the statement its handler runs next
    loc,           \* per request slot: the handler's local variables
    wpc,           \* per delivery worker: the statement of run_once it runs next
    wloc,          \* per delivery worker: the locals of run_once / deliver_once
    http_calls,    \* per webhook_logs row: outbound HTTP calls made for it
    ai_jobs,       \* ai_jobs table: sequence of rows, oldest first
    apc,           \* per AI-job worker: the statement of run_once it runs next
    aloc,          \* per AI-job worker: the locals of run_once
    gen_calls      \* per ai_jobs row: calls of ai_service.generate_test made for it

db == << tests, attempts, next_attempt, answer_logs, webhook_logs >>

slots == << pc, loc >>

\* The AI-job queue and its workers.
ai == << ai_jobs, apc, aloc, gen_calls >>

workers == << wpc, wloc, http_calls, ai_jobs, apc, aloc, gen_calls >>

vars == << now, tests, attempts, next_attempt, answer_logs, webhook_logs, calls, resp,
           pc, loc, wpc, wloc, http_calls, ai_jobs, apc, aloc, gen_calls >>

AiWorkers == 1..MaxAiWorkers

\* Locals of an AI-job worker inside run_once.
ALocIdle == [job_id |-> 0, persist |-> FALSE, test_id |-> Null, error |-> "none"]

\* Locals of a delivery worker inside run_once.
WLocIdle == [id |-> 0, outcome |-> "none", status |-> "none", attempts |-> 0, max_attempts |-> 0]

\* Locals of a handler between its read and its write.
LocIdle ==
    [id |-> 0, test_id |-> "quiz", email |-> "", now |-> 0, num |-> 0,
     list |-> <<>>, questions |-> <<>>, req_status |-> NoStatus,
     link |-> FALSE, file |-> FALSE, result |-> "ok",
     secret |-> "none", event |-> "none", malformed |-> FALSE]

Response(op, id, result, count, terminated) ==
    [op |-> op, id |-> id, result |-> result, count |-> count, terminated |-> terminated]

InitialTests ==
    [t \in TestIds |->
        IF t = "quiz"
        THEN [questions |-> QuestionsV1, duration_minutes |-> 3,
              passing_score |-> 50, test_type |-> "question_based"]
        ELSE [questions |-> <<>>, duration_minutes |-> 61,
              passing_score |-> 50, test_type |-> "presentation"]]

Init ==
    /\ now = 0
    /\ tests = InitialTests
    /\ attempts = << >>
    /\ next_attempt = 0
    /\ answer_logs = << >>
    /\ webhook_logs = << >>
    /\ calls = 0
    /\ resp = Response("none", 0, "ok", 0, FALSE)
    /\ pc = [c \in Clients |-> "idle"]
    /\ loc = [c \in Clients |-> LocIdle]
    /\ wpc = [w \in Workers |-> "idle"]
    /\ wloc = [w \in Workers |-> WLocIdle]
    /\ http_calls = << >>
    /\ ai_jobs = << >>
    /\ apc = [w \in AiWorkers |-> "idle"]
    /\ aloc = [w \in AiWorkers |-> ALocIdle]
    /\ gen_calls = << >>

Exists(id) == id \in DOMAIN attempts

\* A call may be made while the call budget lasts.
Call == /\ calls < MaxCalls
        /\ calls' = calls + 1

Reply(op, id, result) == resp' = Response(op, id, result, 0, FALSE)

\* The call returns without having written anything.
Rejected(op, id, result) ==
    /\ Reply(op, id, result)
    /\ UNCHANGED db

\* A handler's read step: the call is rejected, or its locals are kept for
\* its write step.
ReadStep(c, op, label, l) ==
    /\ pc[c] = "idle"
    /\ Call
    /\ IF l.result = "ok"
       THEN /\ pc' = [pc EXCEPT ![c] = label]
            /\ loc' = [loc EXCEPT ![c] = l]
            /\ UNCHANGED << resp, tests, attempts, next_attempt, webhook_logs >>
       ELSE /\ Reply(op, l.id, l.result)
            /\ UNCHANGED << slots, tests, attempts, next_attempt, webhook_logs >>
    /\ UNCHANGED << now, workers >>

\* A handler's write step returns the slot.
WriteStep(c, label) ==
    /\ pc[c] = label
    /\ pc' = [pc EXCEPT ![c] = "idle"]
    /\ loc' = [loc EXCEPT ![c] = LocIdle]
    /\ UNCHANGED << now, calls, workers >>

\* A whole call in one step.
AtomicStep == Call /\ UNCHANGED << now, slots, workers >>

(* ------------------------- notification outbox ------------------------ *)
NewWebhookLog(event_type, attempt_id) ==
    [event_type |-> event_type, attempt_id |-> attempt_id, status |-> "pending",
     attempts |-> 0, max_attempts |-> 3, next_retry_at |-> Null,
     http_status |-> Null, created_at |-> now]

\* enqueue_webhook: INSERT INTO webhook_logs ... 'pending'.  ok = FALSE is
\* the insert failing (Err); the table holds at most MaxOutbox rows.
EnqueueOutcomes == {FALSE} \cup (IF Len(webhook_logs) < MaxOutbox THEN {TRUE} ELSE {})

enqueue_webhook(ok, event_type, attempt_id) ==
    webhook_logs' =
        IF ok THEN Append(webhook_logs, NewWebhookLog(event_type, attempt_id))
        ELSE webhook_logs

(* --------------------------- webhook intake --------------------------- *)
\* config.webhook_secret, and the x-webhook-secret headers a request may
\* carry ("none": no header).
WebhookSecret == "whsec"

SecretHeaders == {"none", "wrong", WebhookSecret}

WebhookEvents == {"test_assigned", "test_completed"}

\* A faulty variant of verify_secret: any header that is present passes.
verify_secret_present(secret_hdr) == secret_hdr # "none"

\* verify_secret: the header is there and equals the configured secret.
verify_secret(secret_hdr) == secret_hdr # "none" /\ secret_hdr = WebhookSecret

\* A POST to /webhook/test-assigned is in flight: its header, and its body,
\* which is an envelope with an event and the payload of an attempt, or
\* does not deserialize as one.
WebhookPost(c) ==
    /\ pc[c] = "idle"
    /\ Call
    /\ \E secret \in SecretHeaders, event \in WebhookEvents,
          malformed \in BOOLEAN, id \in 1..MaxAttempts :
          loc' = [loc EXCEPT ![c] = [LocIdle EXCEPT !.secret = secret, !.event = event,
                                                    !.malformed = malformed, !.id = id]]
    /\ pc' = [pc EXCEPT ![c] = "webhook_request"]
    /\ UNCHANGED << now, db, resp, workers >>

\* handle_test_assigned: the Json extractor rejects a body that does not
\* deserialize before the handler runs; then verify_secret, the event
\* check, and enqueue_webhook("test_assigned", payload).await?.
HandleTestAssigned(c) ==
    /\ LET rq == loc[c]
       IN IF rq.malformed
          THEN Rejected("handle_test_assigned", rq.id, "bad_request")
          ELSE IF ~verify_secret(rq.secret)
          THEN Rejected("handle_test_assigned", rq.id, "unauthorized")
          ELSE IF rq.event # "test_assigned"
          THEN Rejected("handle_test_assigned", rq.id, "unexpected_event")
          ELSE /\ \E ok \in EnqueueOutcomes :
                    /\ enqueue_webhook(ok, "test_assigned", rq.id)
                    /\ Reply("handle_test_assigned", rq.id, IF ok THEN "accepted" ELSE "error")
               /\ UNCHANGED << tests, attempts, next_attempt, answer_logs >>
    /\ WriteStep(c, "webhook_request")

(* ---------------------------- create_invite --------------------------- *)
\* The row create_invite inserts.
NewAttempt(test_id, email, token, expires_at, snapshot) ==
    [test_id |-> test_id, candidate_email |-> email, access_token |-> token,
     expires_at |-> expires_at, questions_snapshot |-> snapshot,
     answers |-> <<>>, score |-> Null, max_score |-> Null, percentage |-> Null,
     passed |-> "null", graded_answers |-> <<>>, started_at |-> Null,
     completed_at |-> Null, status |-> "pending", tab_switches |-> 0,
     suspicious_activity |-> <<>>, presentation_submission_link |-> FALSE,
     presentation_submission_file_path |-> FALSE, presentation_grade |-> Null,
     deadline_notified |-> FALSE, last_heartbeat_at |-> Null]

PresentationSnapshot == << [id |-> 0, type |-> "presentation", points |-> 0, correct_answer |-> 0] >>

PendingCount(email) ==
    Cardinality({i \in DOMAIN attempts :
        attempts[i].candidate_email = email /\ attempts[i].status = "pending"})

\* A faulty variant of the pending check of create_invite: no check.
InviteLocalsNoCheck(test_id, email, hours) ==
    [LocIdle EXCEPT !.test_id = test_id, !.email = email, !.num = hours]

\* SELECT COUNT(*) ... WHERE candidate_email = $1 AND status = 'pending';
\* BadRequest when the count is positive.
InviteLocals(test_id, email, hours) ==
    [LocIdle EXCEPT !.test_id = test_id, !.email = email, !.num = hours,
                    !.result = IF PendingCount(email) > 0 THEN "bad_request" ELSE "ok"]

\* What the test_attempts table refuses to insert: a row whose access token
\* is already taken.  It holds no other uniqueness rule.
InsertConflicts(row) ==
    \E i \in DOMAIN attempts : attempts[i].access_token = row.access_token

\* The test read and the INSERT of create_invite; then create_test_invite
\* enqueues test_assigned, and returns the error when that fails (`?`).
InviteApply(l) ==
    LET id == next_attempt + 1
        test == tests[l.test_id]
        expires_at == now + HourMinutes * l.num
        snapshot == IF test.test_type = "presentation"
                    THEN PresentationSnapshot ELSE test.questions
        row == NewAttempt(l.test_id, l.email, id, expires_at, snapshot)
    IN IF InsertConflicts(row)
       THEN Rejected("create_invite", 0, "error")
       ELSE /\ attempts' = attempts @@ (id :> row)
            /\ next_attempt' = id
            /\ \E ok \in EnqueueOutcomes :
                 /\ enqueue_webhook(ok, "test_assigned", id)
                 /\ Reply("create_invite", id, IF ok THEN "ok" ELSE "error")
            /\ UNCHANGED << tests, answer_logs >>

CreateInviteStep(l) ==
    IF l.result = "ok" THEN InviteApply(l) ELSE Rejected("create_invite", 0, l.result)

\* At most MaxAttempts rows are ever inserted.
CreateInvite ==
    /\ AtomicStep
    /\ \E test_id \in TestIds, email \in Emails :
        \E hours \in InviteHours(test_id) :
            LET l == InviteLocals(test_id, email, hours)
            IN /\ l.result = "ok" => next_attempt < MaxAttempts
               /\ CreateInviteStep(l)

CreateInviteReadStep(c, l) ==
    ReadStep(c, "create_invite", "invite_insert", l) /\ UNCHANGED answer_logs

CreateInviteRead(c) ==
    \E test_id \in TestIds, email \in Emails :
        \E hours \in InviteHours(test_id) :
            LET l == InviteLocals(test_id, email, hours)
            IN /\ l.result = "ok" =>
                    next_attempt + Cardinality({d \in Clients : pc[d] = "invite_insert"})
                        < MaxAttempts
               /\ CreateInviteReadStep(c, l)

CreateInviteWrite(c) ==
    /\ WriteStep(c, "invite_insert")
    /\ InviteApply(loc[c])

(* -------------------------------- start ------------------------------- *)
\* start_test (route) and start_attempt_by_token up to its UPDATE: the row
\* and the test are read, the expiry is checked, new_expires is computed.
StartLocals(id, row, test, at) ==
    LET expires_candidate == at + test.duration_minutes
        new_expires == IF expires_candidate < row.expires_at
                       THEN expires_candidate ELSE row.expires_at
    IN [LocIdle EXCEPT !.id = id, !.now = at, !.num = new_expires,
                       !.result = IF row.expires_at <= at THEN "test_expired" ELSE "ok"]

\* A faulty variant of the UPDATE of start: started_at is overwritten.
StartUpdateOverwrite(row, at, new_expires) ==
    [row EXCEPT !.status = "in_progress",
                !.started_at = at,
                !.expires_at = new_expires]

\* UPDATE test_attempts SET status = 'in_progress',
\*   started_at = COALESCE(started_at, $1), expires_at = $2 WHERE access_token = $3
StartUpdate(row, at, new_expires) ==
    [row EXCEPT !.status = "in_progress",
                !.started_at = Coalesce(@, at),
                !.expires_at = new_expires]

StartApply(l) ==
    /\ IF Exists(l.id)
       THEN /\ attempts' = [attempts EXCEPT ![l.id] = StartUpdate(@, l.now, l.num)]
            /\ Reply("start", l.id, "ok")
       ELSE /\ UNCHANGED attempts
            /\ Reply("start", l.id, "not_found")
    /\ UNCHANGED << tests, next_attempt, answer_logs, webhook_logs >>

StartCall(id) == StartLocals(id, attempts[id], tests[attempts[id].test_id], now)

Start ==
    /\ AtomicStep
    /\ \E id \in DOMAIN attempts :
        LET l == StartCall(id)
        IN IF l.result = "ok" THEN StartApply(l) ELSE Rejected("start", id, l.result)

StartRead(c) ==
    /\ \E id \in DOMAIN attempts : ReadStep(c, "start", "start_write", StartCall(id))
    /\ UNCHANGED answer_logs

StartWrite(c) ==
    /\ WriteStep(c, "start_write")
    /\ StartApply(loc[c])

(* Inputs of the modelled requests. *)
SaveQuestionIds == {1, 2}
SaveAnswerValues == {JInt(0), JInt(1)}
GradeQuestionIds == {2, 3}
SubmitAnswerLists == { <<>>, << Answer(1, JInt(0)) >> }
ReqStatuses == {NoStatus, "completed", "pending"}
PresentationGrades == {40, 80}
NoQuestions == << >>
QuizDurations == {2, 3}
UpdateTestPayloads ==
    {[questions |-> q, duration_minutes |-> Null] : q \in QuestionLists}
        \cup {[questions |-> NoQuestions, duration_minutes |-> d] : d \in QuizDurations}

(* ----------------------------- save_answer ---------------------------- *)
\* A faulty variant of the upsert of save_answer_by_token: the new item is
\* always pushed.
UpsertAppend(answers, item) == Append(answers, item)

\* answers[pos] = new_item when the question id is present, else push.
Upsert(answers, item) ==
    LET pos == FindPos(answers, item.question_id, 1)
    IN IF pos > 0 THEN [answers EXCEPT ![pos] = item] ELSE Append(answers, item)

\* save_answer (route) and save_answer_by_token up to its UPDATE: the expiry
\* check, and the new answers list built from the answers that were read.
SaveAnswerLocals(id, row, qid, value, at) ==
    [LocIdle EXCEPT !.id = id, !.num = qid,
                    !.list = Upsert(row.answers, Answer(qid, value)),
                    !.result = IF row.expires_at <= at THEN "test_expired" ELSE "ok"]

\* INSERT INTO answer_logs (attempt_id, question_id, answer_value, ...)
AnswerLogInsert(l, value) ==
    answer_logs' =
        IF l.result = "ok"
        THEN Append(answer_logs,
                    [attempt_id |-> l.id, question_id |-> l.num, answer_value |-> value])
        ELSE answer_logs

\* UPDATE test_attempts SET answers = $1 WHERE id = $2
SaveAnswerApply(l) ==
    /\ attempts' = IF Exists(l.id)
                   THEN [attempts EXCEPT ![l.id].answers = l.list]
                   ELSE attempts
    /\ Reply("save_answer", l.id, "ok")
    /\ UNCHANGED << tests, next_attempt, webhook_logs >>

SaveAnswer ==
    /\ AtomicStep
    /\ \E id \in DOMAIN attempts, qid \in SaveQuestionIds, value \in SaveAnswerValues :
        LET l == SaveAnswerLocals(id, attempts[id], qid, value, now)
        IN /\ AnswerLogInsert(l, value)
           /\ IF l.result = "ok" THEN SaveAnswerApply(l)
              ELSE /\ Reply("save_answer", id, l.result)
                   /\ UNCHANGED << tests, attempts, next_attempt, webhook_logs >>

SaveAnswerRead(c) ==
    \E id \in DOMAIN attempts, qid \in SaveQuestionIds, value \in SaveAnswerValues :
        LET l == SaveAnswerLocals(id, attempts[id], qid, value, now)
        IN /\ AnswerLogInsert(l, value)
           /\ ReadStep(c, "save_answer", "save_write", l)

SaveAnswerWrite(c) ==
    /\ WriteStep(c, "save_write")
    /\ SaveAnswerApply(loc[c])
    /\ UNCHANGED answer_logs

(* ------------------------------- submit ------------------------------- *)
\* A faulty variant of the checks of submit_test: the status is not looked at.
SubmitLocalsNoCompletedCheck(id, row, test, answers, req_status, at) ==
    [LocIdle EXCEPT !.id = id, !.list = answers, !.req_status = req_status,
                    !.questions = test.questions, !.num = test.passing_score,
                    !.result = IF row.expires_at <= at THEN "test_expired" ELSE "ok"]

\* submit_test (route) up to the service's writes: the expiry and the
\* already-completed checks on the row read, and the test read by
\* submit_attempt_by_token.
SubmitLocals(id, row, test, answers, req_status, at) ==
    [LocIdle EXCEPT !.id = id, !.list = answers, !.req_status = req_status,
                    !.questions = test.questions, !.num = test.passing_score,
                    !.result = IF row.expires_at <= at THEN "test_expired"
                               ELSE IF row.status = "completed" THEN "already_completed"
                               ELSE "ok"]

\* let status = req.status.unwrap_or("completed");
\* if needs_review && final_status == "completed" { "needs_review" }
FinalStatus(req_status, needs_review) ==
    LET status == IF req_status = NoStatus THEN "completed" ELSE req_status
    IN IF needs_review /\ status = "completed" THEN "needs_review" ELSE status

\* A faulty variant of the UPDATE of submit: the questions graded against
\* are stored as the attempt's snapshot.
SubmitUpdateResnapshot(row, answers, req_status, questions, passing_score, at) ==
    LET g == grade_mcq_only(questions, answers)
        percentage == Percentage(g.earned, g.max)
    IN [row EXCEPT !.answers = answers,
                   !.status = FinalStatus(req_status, g.needs_review),
                   !.completed_at = at,
                   !.score = g.earned,
                   !.max_score = g.max,
                   !.percentage = percentage,
                   !.passed = BoolStr(percentage >= passing_score),
                   !.graded_answers = g.graded,
                   !.questions_snapshot = questions]

\* UPDATE answers; grade; UPDATE status, completed_at, score, max_score,
\* percentage, passed, graded_answers WHERE id = $7
SubmitUpdate(row, answers, req_status, questions, passing_score, at) ==
    LET g == grade_mcq_only(questions, answers)
        percentage == Percentage(g.earned, g.max)
    IN [row EXCEPT !.answers = answers,
                   !.status = FinalStatus(req_status, g.needs_review),
                   !.completed_at = at,
                   !.score = g.earned,
                   !.max_score = g.max,
                   !.percentage = percentage,
                   !.passed = BoolStr(percentage >= passing_score),
                   !.graded_answers = g.graded]

\* The writes of submit_attempt_by_token; then submit_test enqueues
\* test_completed, ignoring a failure to enqueue.
SubmitApply(l) ==
    /\ IF Exists(l.id)
       THEN \E panics \in IF GradingOverflows(l.questions, l.list) THEN BOOLEAN ELSE {FALSE} :
              IF panics
              THEN /\ attempts' = [attempts EXCEPT ![l.id].answers = l.list]
                   /\ UNCHANGED webhook_logs
                   /\ Reply("submit", l.id, "panic")
              ELSE /\ attempts' = [attempts EXCEPT ![l.id] =
                          SubmitUpdate(@, l.list, l.req_status, l.questions, l.num, now)]
                   /\ \E ok \in EnqueueOutcomes : enqueue_webhook(ok, "test_completed", l.id)
                   /\ Reply("submit", l.id, "ok")
       ELSE /\ UNCHANGED << attempts, webhook_logs >>
            /\ Reply("submit", l.id, "not_found")
    /\ UNCHANGED << tests, next_attempt, answer_logs >>

SubmitCall(id, answers, req_status) ==
    SubmitLocals(id, attempts[id], tests[attempts[id].test_id], answers, req_status, now)

Submit ==
    /\ AtomicStep
    /\ \E id \in DOMAIN attempts, answers \in SubmitAnswerLists, req_status \in ReqStatuses :
        LET l == SubmitCall(id, answers, req_status)
        IN IF l.result = "ok" THEN SubmitApply(l) ELSE Rejected("submit", id, l.result)

SubmitRead(c) ==
    /\ \E id \in DOMAIN attempts, answers \in SubmitAnswerLists, req_status \in ReqStatuses :
        ReadStep(c, "submit", "submit_write", SubmitCall(id, answers, req_status))
    /\ UNCHANGED answer_logs

SubmitWrite(c) ==
    /\ WriteStep(c, "submit_write")
    /\ SubmitApply(loc[c])

(* ------------------------- submit_presentation ------------------------ *)
\* submit_presentation (route) up to the service call: the
\* already-completed check on the row read, the multipart body, the
\* empty-submission check.
SubmitPresentationLocals(id, row, link, file) ==
    [LocIdle EXCEPT !.id = id, !.link = link, !.file = file,
                    !.result = IF row.status = "completed" THEN "already_completed"
                               ELSE IF ~link /\ ~file THEN "empty_submission"
                               ELSE "ok"]

\* A faulty variant of the UPDATE of submit_presentation_by_token: the
\* attempt is completed at once.
SubmitPresentationUpdateCompleted(row, link, file, at) ==
    [row EXCEPT !.status = "completed",
                !.completed_at = at,
                !.presentation_submission_link = link,
                !.presentation_submission_file_path = file]

\* UPDATE test_attempts SET status = 'needs_review', completed_at = $1,
\*   presentation_submission_link = $2, presentation_submission_file_path = $3
SubmitPresentationUpdate(row, link, file, at) ==
    [row EXCEPT !.status = "needs_review",
                !.completed_at = at,
                !.presentation_submission_link = link,
                !.presentation_submission_file_path = file]

\* Then the route enqueues presentation_submitted, ignoring a failure.
SubmitPresentationApply(l) ==
    /\ IF Exists(l.id)
       THEN /\ attempts' = [attempts EXCEPT ![l.id] =
                   SubmitPresentationUpdate(@, l.link, l.file, now)]
            /\ \E ok \in EnqueueOutcomes :
                   enqueue_webhook(ok, "presentation_submitted", l.id)
            /\ Reply("submit_presentation", l.id, "ok")
       ELSE /\ UNCHANGED << attempts, webhook_logs >>
            /\ Reply("submit_presentation", l.id, "not_found")
    /\ UNCHANGED << tests, next_attempt, answer_logs >>

SubmitPresentation ==
    /\ AtomicStep
    /\ \E id \in DOMAIN attempts, link \in BOOLEAN, file \in BOOLEAN :
        LET l == SubmitPresentationLocals(id, attempts[id], link, file)
        IN IF l.result = "ok" THEN SubmitPresentationApply(l)
           ELSE Rejected("submit_presentation", id, l.result)

SubmitPresentationRead(c) ==
    /\ \E id \in DOMAIN attempts, link \in BOOLEAN, file \in BOOLEAN :
        ReadStep(c, "submit_presentation", "presentation_write",
                 SubmitPresentationLocals(id, attempts[id], link, file))
    /\ UNCHANGED answer_logs

SubmitPresentationWrite(c) ==
    /\ WriteStep(c, "presentation_write")
    /\ SubmitPresentationApply(loc[c])

(* --------------------------- report_violation ------------------------- *)
\* A faulty variant of the status check of report_violation: every status
\* is acted on.
ReportViolationLocalsAnyStatus(id, row, at) ==
    [LocIdle EXCEPT !.id = id, !.now = at, !.num = row.tab_switches + 1,
                    !.list = Append(row.suspicious_activity, row.tab_switches + 1)]

\* report_violation up to its UPDATE: the row is read; when it is not
\* in_progress the call returns the current counter and writes nothing.
ReportViolationLocals(id, row, at) ==
    [LocIdle EXCEPT !.id = id, !.now = at, !.num = row.tab_switches + 1,
                    !.list = Append(row.suspicious_activity, row.tab_switches + 1),
                    !.result = IF row.status # "in_progress" THEN "not_in_progress" ELSE "ok"]

\* A faulty variant of the UPDATE of report_violation: the terminating
\* branch leaves the score columns alone.
ReportViolationUpdateKeepScore(row, new_count, activity, at) ==
    IF new_count >= MAX_VIOLATIONS
    THEN [row EXCEPT !.tab_switches = new_count,
                     !.suspicious_activity = activity,
                     !.status = "escaped",
                     !.completed_at = at]
    ELSE [row EXCEPT !.tab_switches = new_count,
                     !.suspicious_activity = activity]

\* The UPDATE of report_violation: the terminating one when
\* new_count >= MAX_VIOLATIONS, else the counting one.
ReportViolationUpdate(row, new_count, activity, at) ==
    IF new_count >= MAX_VIOLATIONS
    THEN [row EXCEPT !.tab_switches = new_count,
                     !.suspicious_activity = activity,
                     !.status = "escaped",
                     !.completed_at = at,
                     !.score = 0,
                     !.max_score = Coalesce(@, 0),
                     !.percentage = 0,
                     !.passed = "false"]
    ELSE [row EXCEPT !.tab_switches = new_count,
                     !.suspicious_activity = activity]

\* Ok((new_count, terminated)); the UPDATE of no row is no error.
ReportViolationApply(l) ==
    /\ attempts' = IF Exists(l.id)
                   THEN [attempts EXCEPT ![l.id] =
                            ReportViolationUpdate(@, l.num, l.list, l.now)]
                   ELSE attempts
    /\ resp' = Response("report_violation", l.id, "ok", l.num, l.num >= MAX_VIOLATIONS)
    /\ UNCHANGED << tests, next_attempt, answer_logs, webhook_logs >>

\* Ok((current, attempt.status == "escaped"))
ReportViolationNoop(id, row) ==
    /\ resp' = Response("report_violation", id, "not_in_progress",
                        row.tab_switches, row.status = "escaped")
    /\ UNCHANGED db

ReportViolation ==
    /\ AtomicStep
    /\ \E id \in DOMAIN attempts :
        LET l == ReportViolationLocals(id, attempts[id], now)
        IN IF l.result = "ok" THEN ReportViolationApply(l)
           ELSE ReportViolationNoop(id, attempts[id])

ReportViolationRead(c) ==
    /\ pc[c] = "idle"
    /\ Call
    /\ \E id \in DOMAIN attempts :
        LET l == ReportViolationLocals(id, attempts[id], now)
        IN IF l.result = "ok"
           THEN /\ pc' = [pc EXCEPT ![c] = "violation_write"]
                /\ loc' = [loc EXCEPT ![c] = l]
                /\ UNCHANGED << resp, db >>
           ELSE /\ ReportViolationNoop(id, attempts[id])
                /\ UNCHANGED slots
    /\ UNCHANGED << now, workers >>

ReportViolationWrite(c) ==
    /\ WriteStep(c, "violation_write")
    /\ ReportViolationApply(loc[c])

(* ----------------------------- grade_answer --------------------------- *)
\* A faulty variant of the loop body of grade_answer: the needs_review flag
\* of the graded answer is left as it was.
GradeOneAnswerKeepFlag(ans, question_id, is_correct) ==
    IF ans.question_id = question_id
    THEN [ans EXCEPT !.points_earned = IF is_correct THEN ans.max_points ELSE 0,
                     !.is_correct = is_correct]
    ELSE ans

\* The body of the loop of grade_answer over the graded answers.
GradeOneAnswer(ans, question_id, is_correct) ==
    IF ans.question_id = question_id
    THEN [ans EXCEPT !.points_earned = IF is_correct THEN ans.max_points ELSE 0,
                     !.is_correct = is_correct,
                     !.needs_review = FALSE]
    ELSE ans

Regrade(graded, question_id, is_correct) ==
    [i \in 1..Len(graded) |-> GradeOneAnswer(graded[i], question_id, is_correct)]

\* grade_answer up to its UPDATE: the row is read and the graded answers
\* are recomputed in memory; NotFound when the question is not among them.
GradeAnswerLocals(id, row, question_id, is_correct) ==
    [LocIdle EXCEPT !.id = id,
                    !.list = Regrade(row.graded_answers, question_id, is_correct),
                    !.result = IF FindPos(row.graded_answers, question_id, 1) = 0
                               THEN "not_found" ELSE "ok"]

\* UPDATE test_attempts SET status, graded_answers, score, max_score,
\*   percentage, passed WHERE id = $1
GradeAnswerUpdate(row, graded, passing_score) ==
    LET total_score == SumField(graded, 1)
        max_score == SumMax(graded, 1)
        percentage == Percentage(total_score, max_score)
    IN [row EXCEPT !.status = IF AnyNeedsReview(graded) THEN "needs_review" ELSE "completed",
                   !.graded_answers = graded,
                   !.score = total_score,
                   !.max_score = max_score,
                   !.percentage = percentage,
                   !.passed = BoolStr(percentage >= passing_score)]

\* The passing score is read, then the row is written.
GradeAnswerApply(l) ==
    /\ IF Exists(l.id)
       THEN /\ attempts' = [attempts EXCEPT ![l.id] =
                   GradeAnswerUpdate(@, l.list, tests[@.test_id].passing_score)]
            /\ Reply("grade_answer", l.id, "ok")
       ELSE /\ UNCHANGED attempts
            /\ Reply("grade_answer", l.id, "not_found")
    /\ UNCHANGED << tests, next_attempt, answer_logs, webhook_logs >>

GradeAnswer ==
    /\ AtomicStep
    /\ \E id \in DOMAIN attempts, question_id \in GradeQuestionIds, is_correct \in BOOLEAN :
        LET l == GradeAnswerLocals(id, attempts[id], question_id, is_correct)
        IN IF l.result = "ok" THEN GradeAnswerApply(l)
           ELSE Rejected("grade_answer", id, l.result)

GradeAnswerRead(c) ==
    /\ \E id \in DOMAIN attempts, question_id \in GradeQuestionIds, is_correct \in BOOLEAN :
        ReadStep(c, "grade_answer", "grade_write",
                 GradeAnswerLocals(id, attempts[id], question_id, is_correct))
    /\ UNCHANGED answer_logs

GradeAnswerWrite(c) ==
    /\ WriteStep(c, "grade_write")
    /\ GradeAnswerApply(loc[c])

(* ---------------------------- delete_attempt -------------------------- *)
\* delete_attempt up to its DELETE: the row is read, BadRequest unless pending.
DeleteAttemptLocals(id, row) ==
    [LocIdle EXCEPT !.id = id,
                    !.result = IF row.status # "pending" THEN "bad_request" ELSE "ok"]

\* DELETE FROM test_attempts WHERE id = $1
DeleteAttemptApply(l) ==
    /\ attempts' = [i \in DOMAIN attempts \ {l.id} |-> attempts[i]]
    /\ Reply("delete_attempt", l.id, "ok")
    /\ UNCHANGED << tests, next_attempt, answer_logs, webhook_logs >>

DeleteAttempt ==
    /\ AtomicStep
    /\ \E id \in DOMAIN attempts :
        LET l == DeleteAttemptLocals(id, attempts[id])
        IN IF l.result = "ok" THEN DeleteAttemptApply(l)
           ELSE Rejected("delete_attempt", id, l.result)

DeleteAttemptRead(c) ==
    /\ \E id \in DOMAIN attempts :
        ReadStep(c, "delete_attempt", "delete_write", DeleteAttemptLocals(id, attempts[id]))
    /\ UNCHANGED answer_logs

DeleteAttemptWrite(c) ==
    /\ WriteStep(c, "delete_write")
    /\ DeleteAttemptApply(loc[c])

(* --------------------- single-statement operations -------------------- *)
\* grade_presentation: one UPDATE ... FROM tests t.
GradePresentationUpdate(row, grade, passing_score) ==
    [row EXCEPT !.presentation_grade = grade,
                !.score = grade,
                !.max_score = 100,
                !.percentage = grade,
                !.passed = BoolStr(grade >= passing_score),
                !.status = "completed"]

GradePresentation ==
    /\ AtomicStep
    /\ \E id \in DOMAIN attempts, grade \in PresentationGrades :
        /\ attempts' = [attempts EXCEPT ![id] =
              GradePresentationUpdate(@, grade, tests[@.test_id].passing_score)]
        /\ Reply("grade_presentation", id, "ok")
    /\ UNCHANGED << tests, next_attempt, answer_logs, webhook_logs >>

\* heartbeat: UPDATE test_attempts SET last_heartbeat_at = $1 WHERE access_token = $2
Heartbeat ==
    /\ AtomicStep
    /\ \E id \in DOMAIN attempts :
        /\ attempts' = [attempts EXCEPT ![id].last_heartbeat_at = now]
        /\ Reply("heartbeat", id, "ok")
    /\ UNCHANGED << tests, next_attempt, answer_logs, webhook_logs >>

\* update_test: UPDATE tests SET questions = COALESCE($n, questions),
\*   duration_minutes = COALESCE($m, duration_minutes), ...
\* A field the payload leaves out is None: NoQuestions, Null.
UpdateTestRow(row, payload) ==
    [row EXCEPT !.questions = IF payload.questions = NoQuestions THEN @
                              ELSE payload.questions,
                !.duration_minutes = Coalesce(payload.duration_minutes, @)]

UpdateTest ==
    /\ AtomicStep
    /\ \E payload \in UpdateTestPayloads :
        tests' = [tests EXCEPT !["quiz"] = UpdateTestRow(@, payload)]
    /\ Reply("update_test", 0, "ok")
    /\ UNCHANGED << attempts, next_attempt, answer_logs, webhook_logs >>

(* --------------------------- check_deadlines -------------------------- *)
\* SELECT ... WHERE status = 'in_progress' AND test_type = 'presentation'
\*   AND expires_at <= now + 1 hour AND deadline_notified = FALSE
WarningIds(at) ==
    {i \in DOMAIN attempts :
        /\ attempts[i].status = "in_progress"
        /\ tests[attempts[i].test_id].test_type = "presentation"
        /\ attempts[i].expires_at <= at + HourMinutes
        /\ attempts[i].deadline_notified = FALSE}

MinOf(S) == CHOOSE x \in S : \A y \in S : x <= y

\* The number of deadline_warning rows in the outbox.
RECURSIVE WarningRows(_, _)
WarningRows(logs, k) ==
    IF k > Len(logs) THEN 0
    ELSE (IF logs[k].event_type = "deadline_warning" THEN 1 ELSE 0) + WarningRows(logs, k + 1)

\* A faulty variant of the loop over the warnings: deadline_notified is
\* never set.
RECURSIVE WarnAllNoFlag(_, _, _, _)
WarnAllNoFlag(ids, okf, logs, rows) ==
    IF ids = {} THEN [logs |-> logs, rows |-> rows]
    ELSE LET i == MinOf(ids)
             ok == okf[i] /\ WarningRows(logs, 1) < MaxWarnings
         IN WarnAllNoFlag(ids \ {i}, okf,
                    IF ok THEN Append(logs, NewWebhookLog("deadline_warning", i)) ELSE logs,
                    rows)

\* The loop over the warnings: enqueue deadline_warning, and set
\* deadline_notified only when the enqueue succeeded.  The outbox takes at most
\* MaxWarnings warning rows.
RECURSIVE WarnAll(_, _, _, _)
WarnAll(ids, okf, logs, rows) ==
    IF ids = {} THEN [logs |-> logs, rows |-> rows]
    ELSE LET i == MinOf(ids)
             ok == okf[i] /\ WarningRows(logs, 1) < MaxWarnings
         IN WarnAll(ids \ {i}, okf,
                    IF ok THEN Append(logs, NewWebhookLog("deadline_warning", i)) ELSE logs,
                    IF ok THEN [rows EXCEPT ![i].deadline_notified = TRUE] ELSE rows)

\* A faulty variant of the timeout statement: unset scores stay unset.
TimeoutRuleKeepsUnset(row, at) ==
    IF row.status \in {"pending", "in_progress"} /\ row.expires_at <= at
    THEN [row EXCEPT !.status = "timeout",
                     !.completed_at = row.expires_at,
                     !.passed = "false"]
    ELSE row

\* UPDATE ... SET status = 'timeout', completed_at = expires_at, score =
\*   COALESCE(score, 0), ... passed = FALSE
\*   WHERE status IN ('pending', 'in_progress') AND expires_at <= now
TimeoutRule(row, at) ==
    IF row.status \in {"pending", "in_progress"} /\ row.expires_at <= at
    THEN [row EXCEPT !.status = "timeout",
                     !.completed_at = row.expires_at,
                     !.score = Coalesce(@, 0),
                     !.max_score = Coalesce(@, 0),
                     !.percentage = Coalesce(@, 0),
                     !.passed = "false"]
    ELSE row

\* A faulty variant of the idle statement: a heartbeat that was never sent
\* counts as an old one.
IdleRuleUnsetIsOld(row, test_type, at) ==
    IF /\ row.status = "in_progress"
       /\ test_type # "presentation"
       /\ row.last_heartbeat_at < at - IdleThresholdMinutes
    THEN [row EXCEPT !.status = "escaped", !.completed_at = at]
    ELSE row

\* UPDATE ... SET status = 'escaped', completed_at = now
\*   WHERE status = 'in_progress' AND test_type != 'presentation'
\*     AND last_heartbeat_at IS NOT NULL AND last_heartbeat_at < now - 2 minutes
IdleRule(row, test_type, at) ==
    IF /\ row.status = "in_progress"
       /\ test_type # "presentation"
       /\ row.last_heartbeat_at # Null
       /\ row.last_heartbeat_at < at - IdleThresholdMinutes
    THEN [row EXCEPT !.status = "escaped", !.completed_at = at]
    ELSE row

\* A faulty variant of the order of the two statements: idle first.
SweepRowIdleFirst(row, test_type, at) == TimeoutRule(IdleRule(row, test_type, at), at)

\* The two UPDATEs of a pass in their order: the timeout statement, then
\* the idle statement on what it left.
SweepRow(row, test_type, at) == IdleRule(TimeoutRule(row, at), test_type, at)

\* One pass of the sweeper.
CheckDeadlines ==
    /\ \E okf \in [WarningIds(now) -> BOOLEAN] :
        LET w == WarnAll(WarningIds(now), okf, webhook_logs, attempts)
        IN /\ attempts' = [i \in DOMAIN attempts |->
                              SweepRow(w.rows[i], tests[w.rows[i].test_id].test_type, now)]
           /\ webhook_logs' = w.logs
    /\ UNCHANGED << now, tests, next_attempt, answer_logs, calls, resp, slots, workers >>

(* -------------------------------- clock ------------------------------- *)
Tick ==
    /\ \E t \in Instants :
        /\ t > now
        /\ \A u \in Instants : u > now => t <= u
        /\ now' = t
    /\ UNCHANGED << db, calls, resp, slots, workers >>

(* --------------------------- delivery workers ------------------------- *)
NowSeconds == now * 60

\* WHERE status = 'pending' AND (next_retry_at IS NULL OR next_retry_at <= NOW())
EligibleRows ==
    {r \in 1..Len(webhook_logs) :
        /\ webhook_logs[r].status = "pending"
        /\ (webhook_logs[r].next_retry_at = Null
            \/ webhook_logs[r].next_retry_at <= NowSeconds)}

\* ORDER BY created_at ASC ... LIMIT 1.  The statement runs on the pool
\* outside any transaction, so its row lock is released when it returns.
RunOnceSelect(w) ==
    /\ wpc[w] = "idle"
    /\ \E r \in EligibleRows :
        /\ \A q \in EligibleRows : webhook_logs[r].created_at <= webhook_logs[q].created_at
        /\ wloc' = [wloc EXCEPT ![w].id = r]
    /\ wpc' = [wpc EXCEPT ![w] = "deliver"]
    /\ UNCHANGED << now, db, calls, resp, slots, ai, http_calls >>

HttpCalls(r) == IF r \in DOMAIN http_calls THEN http_calls[r] ELSE 0

HttpOutcomes == {"2xx", "non_2xx", "error"}

\* deliver_once: the row is read and the request is sent.
DeliverSend(w) ==
    /\ wpc[w] = "deliver"
    /\ \E outcome \in HttpOutcomes : wloc' = [wloc EXCEPT ![w].outcome = outcome]
    /\ http_calls' = (wloc[w].id :> HttpCalls(wloc[w].id) + 1) @@ http_calls
    /\ wpc' = [wpc EXCEPT ![w] = "record"]
    /\ UNCHANGED << now, db, calls, resp, slots, ai >>

\* UPDATE webhook_logs SET http_status, status = CASE WHEN 2xx THEN
\*   'success' ELSE 'failed' END, attempts = COALESCE(attempts, 0) + 1
DeliverUpdate(row, outcome) ==
    [row EXCEPT !.status = IF outcome = "2xx" THEN "success" ELSE "failed",
                !.http_status = IF outcome = "2xx" THEN 200
                                ELSE IF outcome = "non_2xx" THEN 500 ELSE @,
                !.attempts = @ + 1]

DeliverRecord(w) ==
    /\ wpc[w] = "record"
    /\ webhook_logs' = [webhook_logs EXCEPT ![wloc[w].id] = DeliverUpdate(@, wloc[w].outcome)]
    /\ wpc' = [wpc EXCEPT ![w] = "reread"]
    /\ UNCHANGED << now, tests, attempts, next_attempt, answer_logs, calls, resp, slots, ai,
                    wloc, http_calls >>

\* SELECT attempts, max_attempts, status FROM webhook_logs WHERE id = $1
RunOnceReread(w) ==
    /\ wpc[w] = "reread"
    /\ LET row == webhook_logs[wloc[w].id]
       IN /\ wloc' = [wloc EXCEPT ![w] =
                  IF row.status = "failed" /\ row.attempts < row.max_attempts
                  THEN [@ EXCEPT !.status = row.status, !.attempts = row.attempts,
                                 !.max_attempts = row.max_attempts]
                  ELSE WLocIdle]
          /\ wpc' = [wpc EXCEPT ![w] =
                  IF row.status = "failed" /\ row.attempts < row.max_attempts
                  THEN "schedule" ELSE "idle"]
    /\ UNCHANGED << now, db, calls, resp, slots, ai, http_calls >>

RECURSIVE Pow2(_)
Pow2(n) == IF n <= 0 THEN 1 ELSE 2 * Pow2(n - 1)

\* LEAST(3600, 30 * power(2, GREATEST(0, attempts - 1))) seconds, with the
\* attempts column of the row as the UPDATE finds it.
BackoffSeconds(n) == Min(3600, 30 * Pow2(Max(0, n - 1)))

\* UPDATE webhook_logs SET next_retry_at = NOW() + make_interval(...)
RunOnceSchedule(w) ==
    /\ wpc[w] = "schedule"
    /\ webhook_logs' = [webhook_logs EXCEPT ![wloc[w].id].next_retry_at =
                            NowSeconds + BackoffSeconds(webhook_logs[wloc[w].id].attempts)]
    /\ wpc' = [wpc EXCEPT ![w] = "idle"]
    /\ wloc' = [wloc EXCEPT ![w] = WLocIdle]
    /\ UNCHANGED << now, tests, attempts, next_attempt, answer_logs, calls, resp, slots, ai,
                    http_calls >>

(* ----------------------------- AI-job queue ---------------------------- *)
\* enqueue: INSERT INTO ai_jobs (payload, persist, ...), status 'pending'.
NewAiJob(persist) ==
    [status |-> "pending", persist |-> persist, result |-> FALSE,
     error |-> "none", test_id |-> Null]

AiEnqueue ==
    /\ Len(ai_jobs) < MaxJobs
    /\ \E persist \in BOOLEAN : ai_jobs' = Append(ai_jobs, NewAiJob(persist))
    /\ UNCHANGED << now, db, calls, resp, slots, wpc, wloc, http_calls, apc, aloc, gen_calls >>

\* A faulty variant of the claim's subquery: the status is not looked at.
ClaimableJobsAnyStatus(jobs) == {j \in 1..Len(jobs) : jobs[j].status \in {"pending", "running"}}

\* SELECT id FROM ai_jobs WHERE status = 'pending' ... FOR UPDATE SKIP LOCKED
ClaimableJobs(jobs) == {j \in 1..Len(jobs) : jobs[j].status = "pending"}

\* run_once, its first statement: UPDATE ai_jobs SET status = 'running'
\*   WHERE id = (SELECT id ... ORDER BY created_at ASC ... LIMIT 1) RETURNING id.
\* One statement: the row lock of the subquery is held until the UPDATE is
\* done.  The job row is then read (persist, payload).
AiClaim(w) ==
    /\ apc[w] = "idle"
    /\ ClaimableJobs(ai_jobs) # {}
    /\ LET j == MinOf(ClaimableJobs(ai_jobs))
       IN /\ ai_jobs' = [ai_jobs EXCEPT ![j].status = "running"]
          /\ aloc' = [aloc EXCEPT ![w] = [ALocIdle EXCEPT !.job_id = j,
                                                          !.persist = ai_jobs[j].persist]]
    /\ apc' = [apc EXCEPT ![w] = "generate"]
    /\ UNCHANGED << now, db, calls, resp, slots, wpc, wloc, http_calls, gen_calls >>

GenCalls(j) == IF j \in DOMAIN gen_calls THEN gen_calls[j] ELSE 0

\* ai_service.generate_test(..).await: Ok(out) or Err(e).
AiGenerate(w) ==
    /\ apc[w] = "generate"
    /\ gen_calls' = (aloc[w].job_id :> GenCalls(aloc[w].job_id) + 1) @@ gen_calls
    /\ \E ok \in BOOLEAN :
        IF ok
        THEN /\ apc' = [apc EXCEPT ![w] = IF aloc[w].persist THEN "persist" ELSE "store"]
             /\ UNCHANGED aloc
        ELSE /\ apc' = [apc EXCEPT ![w] = "failed"]
             /\ aloc' = [aloc EXCEPT ![w].error = "generation"]
    /\ UNCHANGED << now, db, calls, resp, slots, wpc, wloc, http_calls, ai_jobs >>

\* The outcomes of the persist block: the test is created and its
\* ai_metadata is stored; create_test (or the users lookup) fails; the test
\* is created and the UPDATE of ai_metadata fails.
PersistOutcomes == {"ok", "create_failed", "metadata_failed"}

\* if persist { create_test ...; UPDATE tests SET ai_metadata ... .await? }
AiPersist(w) ==
    /\ apc[w] = "persist"
    /\ \E outcome \in PersistOutcomes :
        /\ apc' = [apc EXCEPT ![w] = CASE outcome = "ok" -> "store"
                                       [] outcome = "create_failed" -> "failed"
                                       [] OTHER -> "idle"]
        /\ aloc' = [aloc EXCEPT ![w] =
                     CASE outcome = "ok" -> [@ EXCEPT !.test_id = aloc[w].job_id]
                       [] outcome = "create_failed" -> [@ EXCEPT !.error = "persist"]
                       [] OTHER -> ALocIdle]
    /\ UNCHANGED << now, db, calls, resp, slots, wpc, wloc, http_calls, ai_jobs, gen_calls >>

\* A faulty variant of the failure UPDATE: the job is queued again.
AiFailedUpdateRequeue(row, error) ==
    [row EXCEPT !.status = "pending", !.error = error]

\* UPDATE ai_jobs SET status = 'failed', error = $1, finished_at = NOW() WHERE id = $2
AiFailedUpdate(row, error) ==
    [row EXCEPT !.status = "failed", !.error = error]

\* The failure branches of run_once: the job is marked failed, Ok(true).
AiRecordFailure(w) ==
    /\ apc[w] = "failed"
    /\ ai_jobs' = [ai_jobs EXCEPT ![aloc[w].job_id] = AiFailedUpdate(@, aloc[w].error)]
    /\ apc' = [apc EXCEPT ![w] = "idle"]
    /\ aloc' = [aloc EXCEPT ![w] = ALocIdle]
    /\ UNCHANGED << now, db, calls, resp, slots, wpc, wloc, http_calls, gen_calls >>

\* UPDATE ai_jobs SET status = 'succeeded', result = $1, test_id = $2,
\*   finished_at = NOW() WHERE id = $3
AiSucceededUpdate(row, test_id) ==
    [row EXCEPT !.status = "succeeded", !.result = TRUE, !.test_id = test_id]

\* The last statement of run_once, `.execute(&self.pool).await?`: the
\* result is stored, or the statement fails and run_once returns Err.
AiStore(w) ==
    /\ apc[w] = "store"
    /\ \E ok \in BOOLEAN :
        ai_jobs' = IF ok
                   THEN [ai_jobs EXCEPT ![aloc[w].job_id] = AiSucceededUpdate(@, aloc[w].test_id)]
                   ELSE ai_jobs
    /\ apc' = [apc EXCEPT ![w] = "idle"]
    /\ aloc' = [aloc EXCEPT ![w] = ALocIdle]
    /\ UNCHANGED << now, db, calls, resp, slots, wpc, wloc, http_calls, gen_calls >>

(* --------------------------- specifications --------------------------- *)
\* Every call runs alone.
Next ==
    \/ CreateInvite
    \/ Start
    \/ SaveAnswer
    \/ Submit
    \/ SubmitPresentation
    \/ ReportViolation
    \/ GradeAnswer
    \/ GradePresentation
    \/ Heartbeat
    \/ DeleteAttempt
    \/ UpdateTest
    \/ CheckDeadlines
    \/ Tick

Spec == Init /\ [][Next]_vars

\* The reads and the writes of the candidate's calls on a test interleave
\* with each other, with the sweeper and with the clock.
NextRace ==
    \/ CreateInvite
    \/ \E c \in Clients :
        \/ StartRead(c) \/ StartWrite(c)
        \/ ReportViolationRead(c) \/ ReportViolationWrite(c)
        \/ SubmitRead(c) \/ SubmitWrite(c)
    \/ Heartbeat
    \/ CheckDeadlines
    \/ Tick

SpecRace == Init /\ [][NextRace]_vars

\* The reads and the writes of every call interleave.
NextRaceAll ==
    \/ \E c \in Clients :
        \/ CreateInviteRead(c) \/ CreateInviteWrite(c)
        \/ StartRead(c) \/ StartWrite(c)
        \/ SaveAnswerRead(c) \/ SaveAnswerWrite(c)
        \/ SubmitRead(c) \/ SubmitWrite(c)
        \/ SubmitPresentationRead(c) \/ SubmitPresentationWrite(c)
        \/ ReportViolationRead(c) \/ ReportViolationWrite(c)
        \/ GradeAnswerRead(c) \/ GradeAnswerWrite(c)
        \/ DeleteAttemptRead(c) \/ DeleteAttemptWrite(c)
    \/ GradePresentation
    \/ Heartbeat
    \/ UpdateTest
    \/ CheckDeadlines
    \/ Tick

SpecRaceAll == Init /\ [][NextRaceAll]_vars

\* The outbox and its delivery workers.
NextOutbox ==
    \/ CreateInvite
    \/ Tick
    \/ \E w \in Workers :
        \/ RunOnceSelect(w)
        \/ DeliverSend(w)
        \/ DeliverRecord(w)
        \/ RunOnceReread(w)
        \/ RunOnceSchedule(w)

SpecOutbox == Init /\ [][NextOutbox]_vars

\* delete_attempt's read and DELETE interleave with start, submit and the
\* sweeper.
NextRaceDelete ==
    \/ CreateInvite
    \/ \E c \in Clients :
        \/ DeleteAttemptRead(c) \/ DeleteAttemptWrite(c)
    \/ Start
    \/ Submit
    \/ CheckDeadlines
    \/ Tick

SpecRaceDelete == Init /\ [][NextRaceDelete]_vars

\* The question lists create_test accepts: points is any i32.
PointLists ==
    { << Mcq(1, 1, 0) >>,
      << Mcq(1, 1, 0), Mcq(2, 2, 1) >>,
      << Mcq(1, 1, 0), ShortAnswer(2, 1) >>,
      << Mcq(1, -2, 0) >> }

\* The state after create_test has stored a question-based test.
InitGrading ==
    /\ now = 0
    /\ \E questions \in PointLists :
        tests = [InitialTests EXCEPT !["quiz"].questions = questions]
    /\ attempts = << >>
    /\ next_attempt = 0
    /\ answer_logs = << >>
    /\ webhook_logs = << >>
    /\ calls = 0
    /\ resp = Response("none", 0, "ok", 0, FALSE)
    /\ pc = [c \in Clients |-> "idle"]
    /\ loc = [c \in Clients |-> LocIdle]
    /\ wpc = [w \in Workers |-> "idle"]
    /\ wloc = [w \in Workers |-> WLocIdle]
    /\ http_calls = << >>
    /\ ai_jobs = << >>
    /\ apc = [w \in AiWorkers |-> "idle"]
    /\ aloc = [w \in AiWorkers |-> ALocIdle]
    /\ gen_calls = << >>

\* The candidate's calls on a test of any of these question lists.
NextGrading ==
    \/ CreateInvite
    \/ Start
    \/ SaveAnswer
    \/ Submit

SpecGrading == InitGrading /\ [][NextGrading]_vars

\* The row of a quiz attempt that was invited and started at minute 0.
StartedAttempt ==
    LET test == InitialTests["quiz"]
        invited == NewAttempt("quiz", CHOOSE e \in Emails : TRUE, 1,
                              HourMinutes * (CHOOSE h \in InviteHours("quiz") : TRUE),
                              test.questions)
    IN StartUpdate(invited, 0, StartLocals(1, invited, test, 0).num)

\* The state after create_invite and start: one in_progress attempt and its
\* test_assigned event in the outbox.  Calls are counted from here.
InitStarted ==
    /\ now = 0
    /\ tests = InitialTests
    /\ attempts = (1 :> StartedAttempt)
    /\ next_attempt = 1
    /\ answer_logs = << >>
    /\ webhook_logs = << NewWebhookLog("test_assigned", 1) >>
    /\ calls = 0
    /\ resp = Response("start", 1, "ok", 0, FALSE)
    /\ pc = [c \in Clients |-> "idle"]
    /\ loc = [c \in Clients |-> LocIdle]
    /\ wpc = [w \in Workers |-> "idle"]
    /\ wloc = [w \in Workers |-> WLocIdle]
    /\ http_calls = << >>
    /\ ai_jobs = << >>
    /\ apc = [w \in AiWorkers |-> "idle"]
    /\ aloc = [w \in AiWorkers |-> ALocIdle]
    /\ gen_calls = << >>

\* The calls on a started attempt, and the sweeper.
NextStarted ==
    \/ ReportViolation
    \/ Start
    \/ SaveAnswer
    \/ Submit
    \/ Heartbeat
    \/ CheckDeadlines
    \/ Tick

SpecStarted == InitStarted /\ [][NextStarted]_vars

\* The question lists create_test accepts and the answer lists a candidate
\* can post: question types, ids apart from positions, points up to
\* i32::MAX; answers that are integers (one beyond 32 bits), objects,
\* strings, fractions, null, missing, or given twice.
GradeQuestionLists ==
    { << Mcq(1, 2, 1) >>,
      << Mcq(1, 1, 0), ShortAnswer(2, 1) >>,
      << Mcq(1, 1, 0), CodeQuestion(2, 3) >>,
      << CodeQuestion(1, 1) >>,
      << Mcq(3, 1, 0), Mcq(1, 1, 1) >>,
      << Mcq(1, MaxI32, 0), Mcq(2, 1, 1) >> }

GradeAnswerValues ==
    { JInt(0), JInt(1), JWide(1, 0), JWide(1, 1), JObj(0), JObj(1),
      JStr, JFloat(1), JNull, JEmptyObj }

GradeAnswerLists ==
    {<< >>, << Answer(3, JInt(0)) >>, << Answer(1, JInt(1)), Answer(1, JInt(0)) >>}
        \cup {<< Answer(1, v) >> : v \in GradeAnswerValues}
        \cup {<< Answer(1, v), Answer(2, w) >> : v \in {JInt(0), JObj(1)}, w \in {JInt(1), JStr}}

\* The state after create_test has stored one of these question lists.
InitGradeInputs ==
    /\ now = 0
    /\ \E questions \in GradeQuestionLists :
        tests = [InitialTests EXCEPT !["quiz"].questions = questions]
    /\ attempts = << >>
    /\ next_attempt = 0
    /\ answer_logs = << >>
    /\ webhook_logs = << >>
    /\ calls = 0
    /\ resp = Response("none", 0, "ok", 0, FALSE)
    /\ pc = [c \in Clients |-> "idle"]
    /\ loc = [c \in Clients |-> LocIdle]
    /\ wpc = [w \in Workers |-> "idle"]
    /\ wloc = [w \in Workers |-> WLocIdle]
    /\ http_calls = << >>
    /\ ai_jobs = << >>
    /\ apc = [w \in AiWorkers |-> "idle"]
    /\ aloc = [w \in AiWorkers |-> ALocIdle]
    /\ gen_calls = << >>

\* submit_test with a body whose answers are any of these lists and whose
\* status is left out.
SubmitAnswers ==
    /\ AtomicStep
    /\ \E id \in DOMAIN attempts, answers \in GradeAnswerLists :
        LET l == SubmitCall(id, answers, NoStatus)
        IN IF l.result = "ok" THEN SubmitApply(l) ELSE Rejected("submit", id, l.result)

NextGradeInputs ==
    \/ CreateInvite
    \/ SubmitAnswers

SpecGradeInputs == InitGradeInputs /\ [][NextGradeInputs]_vars

\* The webhook intake route: requests are posted and handled, several at
\* a time.
NextWebhook ==
    \E c \in Clients : WebhookPost(c) \/ HandleTestAssigned(c)

SpecWebhook == Init /\ [][NextWebhook]_vars

\* The AI-job queue and its workers.
NextAi ==
    \/ AiEnqueue
    \/ \E w \in AiWorkers :
        \/ AiClaim(w)
        \/ AiGenerate(w)
        \/ AiPersist(w)
        \/ AiRecordFailure(w)
        \/ AiStore(w)

SpecAi == Init /\ [][NextAi]_vars

(* ------------------------------ properties ---------------------------- *)
Kept == DOMAIN attempts \cap DOMAIN attempts'

\* The edges of the lifecycle.
AllowedEdges ==
    { << "pending", "in_progress" >>, << "pending", "timeout" >>,
      << "in_progress", "completed" >>, << "in_progress", "needs_review" >>,
      << "in_progress", "timeout" >>, << "in_progress", "escaped" >>,
      << "needs_review", "completed" >> }

\* C1: every change of an attempt's status follows one of the edges
\* pending->in_progress, pending->timeout, in_progress->completed,
\* in_progress->needs_review, in_progress->timeout, in_progress->escaped,
\* needs_review->completed.
StatusFollowsEdges ==
    [][\A i \in Kept :
          attempts'[i].status # attempts[i].status
              => << attempts[i].status, attempts'[i].status >> \in AllowedEdges]_vars

\* C2: once an attempt's status is timeout or escaped, no step changes it.
TerminalStatusStays ==
    [][\A i \in Kept :
          attempts[i].status \in {"timeout", "escaped"}
              => attempts'[i].status = attempts[i].status]_vars

\* C3: for every outbox row the outbound HTTP call is made at most once and
\* at most one outcome is recorded (its attempts counter never exceeds 1
\* while the row has been eligible once), however the workers interleave.
DeliveredOnce ==
    \A r \in 1..Len(webhook_logs) :
        HttpCalls(r) <= 1 /\ webhook_logs[r].attempts <= 1

\* C4: an outbox row whose delivery failed with attempts < max_attempts and
\* whose next_retry_at is due is among the rows run_once selects from.
FailedDueIsSelectable ==
    \A r \in 1..Len(webhook_logs) :
        ( /\ webhook_logs[r].status = "failed"
          /\ webhook_logs[r].attempts < webhook_logs[r].max_attempts
          /\ webhook_logs[r].next_retry_at # Null
          /\ webhook_logs[r].next_retry_at <= NowSeconds )
            => r \in EligibleRows

\* C5: an attempt whose status is completed has no graded answer flagged
\* needs_review.
CompletedHasNoReviewFlag ==
    \A i \in DOMAIN attempts :
        attempts[i].status = "completed" => ~AnyNeedsReview(attempts[i].graded_answers)

\* A report_violation call on attempt i that found it in_progress.
ViolationCallOn(i) ==
    /\ calls' = calls + 1
    /\ resp'.op = "report_violation"
    /\ resp'.id = i
    /\ attempts[i].status = "in_progress"

\* C6: a report_violation call on an in_progress attempt raises tab_switches
\* by exactly 1 and appends one entry to the activity log; when it brings
\* the counter to 2 it sets status escaped, score 0, percentage 0, passed
\* false, completed_at now, and reports the attempt as terminated; below 2
\* the attempt stays in_progress and is not reported as terminated.
ViolationCountsAndEscapes ==
    [][\A i \in Kept :
          ViolationCallOn(i) =>
              /\ attempts'[i].tab_switches = attempts[i].tab_switches + 1
              /\ attempts'[i].suspicious_activity =
                     Append(attempts[i].suspicious_activity, attempts'[i].tab_switches)
              /\ resp'.count = attempts'[i].tab_switches
              /\ attempts'[i].tab_switches = 2 =>
                     /\ attempts'[i].status = "escaped"
                     /\ attempts'[i].score = 0
                     /\ attempts'[i].percentage = 0
                     /\ attempts'[i].passed = "false"
                     /\ attempts'[i].completed_at = now
                     /\ resp'.terminated
              /\ attempts'[i].tab_switches < 2 =>
                     /\ attempts'[i].status = "in_progress"
                     /\ attempts'[i].score = attempts[i].score
                     /\ ~resp'.terminated]_vars

\* C6 witness: the second violation has been reported and has escaped the
\* attempt.
SecondViolationEscaped ==
    \E i \in DOMAIN attempts :
        /\ resp = Response("report_violation", i, "ok", 2, TRUE)
        /\ attempts[i].tab_switches = 2
        /\ attempts[i].status = "escaped"
        /\ attempts[i].completed_at = now

\* C7: every report_violation call that read the attempt in_progress and
\* returns leaves the counter one higher and the activity log one entry
\* longer than its write found them: no increment is lost when the reads
\* and the writes of two calls interleave.
NoLostViolation ==
    [][\A c \in Clients :
          (pc[c] = "violation_write" /\ pc'[c] = "idle" /\ loc[c].id \in Kept) =>
              /\ attempts'[loc[c].id].tab_switches = attempts[loc[c].id].tab_switches + 1
              /\ Len(attempts'[loc[c].id].suspicious_activity) =
                     Len(attempts[loc[c].id].suspicious_activity) + 1]_vars

\* A start call that succeeded on attempt i, which was started before.
RepeatedStartOn(i) ==
    /\ calls' = calls + 1
    /\ resp' = Response("start", i, "ok", 0, FALSE)
    /\ attempts[i].started_at # Null

ExpiryWithinDuration ==
    \A i \in DOMAIN attempts :
        attempts[i].started_at # Null =>
            attempts[i].expires_at
                <= attempts[i].started_at + tests[attempts[i].test_id].duration_minutes

\* C10: the score, max score and graded answers a submit leaves are those of
\* grading the submitted answers against the attempt's questions_snapshot.
GradedAgainstSnapshot ==
    \A i \in DOMAIN attempts :
        ( /\ resp = Response("submit", i, "ok", 0, FALSE)
          /\ tests[attempts[i].test_id].test_type = "question_based" ) =>
            LET g == grade_mcq_only(attempts[i].questions_snapshot, attempts[i].answers)
            IN /\ attempts[i].score = g.earned
               /\ attempts[i].max_score = g.max
               /\ attempts[i].graded_answers = g.graded

\* A submit call that succeeded on attempt i.
SubmitCallOn(i) ==
    /\ calls' = calls + 1
    /\ resp' = Response("submit", i, "ok", 0, FALSE)

\* C11: after a successful submit, whatever the request body, the stored
\* status is needs_review when a graded answer requires manual review and
\* completed when none does.
SubmitStoresGradedStatus ==
    [][\A i \in Kept :
          SubmitCallOn(i) =>
              attempts'[i].status =
                  IF AnyNeedsReview(attempts'[i].graded_answers)
                  THEN "needs_review" ELSE "completed"]_vars

\* The reads and the writes of the calls that create invites, save answers
\* and grade answers interleave.
NextRaceEdit ==
    \/ \E c \in Clients :
        \/ CreateInviteRead(c) \/ CreateInviteWrite(c)
        \/ SaveAnswerRead(c) \/ SaveAnswerWrite(c)
        \/ GradeAnswerRead(c) \/ GradeAnswerWrite(c)
    \/ Start
    \/ Submit

SpecRaceEdit == Init /\ [][NextRaceEdit]_vars

\* C12: at most one attempt with status pending exists per candidate email.
OnePendingPerEmail ==
    \A email \in Emails : PendingCount(email) <= 1

\* A create_invite call.
InviteCall ==
    /\ calls' = calls + 1
    /\ resp'.op = "create_invite"

ExpiryCheckedOps == {"start", "save_answer", "submit", "submit_presentation"}

\* C14: start, save-answer, submit and submit-presentation on a token whose
\* attempt has expires_at <= now are rejected, change no column of the
\* attempt row and add no answer-log row.
ExpiredCallsChangeNothing ==
    [][\A i \in Kept :
          ( /\ calls' = calls + 1
            /\ resp'.op \in ExpiryCheckedOps
            /\ resp'.id = i
            /\ attempts[i].expires_at <= now ) =>
              /\ resp'.result # "ok"
              /\ attempts'[i] = attempts[i]
              /\ answer_logs' = answer_logs]_vars

\* A submit or submit-presentation call on attempt i, which is completed.
SubmitCallOnCompleted(i) ==
    /\ calls' = calls + 1
    /\ resp'.op \in {"submit", "submit_presentation"}
    /\ resp'.id = i
    /\ attempts[i].status = "completed"

\* C15: submit and submit-presentation on a completed attempt are rejected
\* with already_completed and leave the attempt row as it was.
CompletedRejectsWithConflict ==
    [][\A i \in Kept :
          SubmitCallOnCompleted(i) =>
              /\ resp'.result = "already_completed"
              /\ attempts'[i] = attempts[i]]_vars

\* C15, amended: submit and submit-presentation on a completed attempt are
\* rejected and leave the attempt row as it was; the rejection is
\* already_completed, except that submit answers test_expired when the
\* completed attempt has also expired.
CompletedRejects ==
    [][\A i \in Kept :
          SubmitCallOnCompleted(i) =>
              /\ resp'.result =
                     IF resp'.op = "submit" /\ attempts[i].expires_at <= now
                     THEN "test_expired" ELSE "already_completed"
              /\ attempts'[i] = attempts[i]]_vars

\* C15 witness: a submit was rejected as already completed.
SubmitWasRejectedAsCompleted ==
    \E i \in DOMAIN attempts :
        /\ resp = Response("submit", i, "already_completed", 0, FALSE)
        /\ attempts[i].status = "completed"
        /\ attempts[i].expires_at > now

\* C16: the write of a submit or report_violation call that finds the
\* attempt in status timeout (the sweeper ran after the call's read) leaves
\* the status, completed_at and passed that the sweeper set.
WriteKeepsTimeout ==
    [][\A c \in Clients :
          ( /\ pc[c] \in {"submit_write", "violation_write"}
            /\ pc'[c] = "idle"
            /\ loc[c].id \in Kept
            /\ attempts[loc[c].id].status = "timeout" ) =>
              /\ attempts'[loc[c].id].status = "timeout"
              /\ attempts'[loc[c].id].completed_at = attempts[loc[c].id].completed_at
              /\ attempts'[loc[c].id].passed = attempts[loc[c].id].passed]_vars

\* A grade_answer call that succeeded on attempt i.
GradeCallOn(i) ==
    /\ calls' = calls + 1
    /\ resp' = Response("grade_answer", i, "ok", 0, FALSE)

\* Entry k of the graded answers of attempt i is graded as is_correct.
GradedAs(i, k, is_correct) ==
    LET before == attempts[i].graded_answers[k]
        after == attempts'[i].graded_answers[k]
    IN /\ after.points_earned = IF is_correct THEN before.max_points ELSE 0
       /\ after.is_correct = is_correct
       /\ after.needs_review = FALSE
       /\ after.max_points = before.max_points
       /\ after.question_id = before.question_id

\* C17: grade_answer(attempt, q, is_correct) sets the graded answer for q
\* to its max points when is_correct and to 0 otherwise and clears its
\* needs_review flag, leaves the other graded answers alone, recomputes
\* score, max score, percentage and passed over all graded answers, and sets
\* status to completed exactly when no graded answer remains flagged
\* (needs_review otherwise).
GradeAnswerRecomputes ==
    [][\A i \in Kept :
          GradeCallOn(i) =>
              LET old == attempts[i].graded_answers
                  new == attempts'[i].graded_answers
              IN /\ Len(new) = Len(old)
                 /\ \E k \in 1..Len(old), is_correct \in BOOLEAN :
                      /\ GradedAs(i, k, is_correct)
                      /\ \A j \in 1..Len(old) :
                           old[j].question_id # old[k].question_id => new[j] = old[j]
                 /\ attempts'[i].score = SumField(new, 1)
                 /\ attempts'[i].max_score = SumMax(new, 1)
                 /\ attempts'[i].percentage =
                        Percentage(attempts'[i].score, attempts'[i].max_score)
                 /\ attempts'[i].passed =
                        BoolStr(attempts'[i].percentage
                                    >= tests[attempts[i].test_id].passing_score)
                 /\ attempts'[i].status =
                        IF \E j \in 1..Len(new) : new[j].needs_review
                        THEN "needs_review" ELSE "completed"]_vars

\* C17 witness: after a submit that answered the multiple-choice question
\* correctly, the two open questions were graded (one correct, one wrong):
\* the attempt is completed with 2 of 3 points, 66 percent, passed.
GradedToCompleted ==
    \E i \in DOMAIN attempts :
        /\ resp = Response("grade_answer", i, "ok", 0, FALSE)
        /\ attempts[i].status = "completed"
        /\ attempts[i].score = 2
        /\ attempts[i].max_score = 3
        /\ attempts[i].percentage = 66
        /\ attempts[i].passed = "true"

\* Client c's grade_answer call performs its UPDATE in this step.
GradeWriteBy(c) ==
    /\ pc[c] = "grade_write"
    /\ pc'[c] = "idle"
    /\ loc[c].id \in Kept
    /\ loc[c].result = "ok"

\* C18: when two grade_answer calls for two different flagged questions of
\* one needs_review attempt overlap, both grades are kept: the UPDATE of a
\* grade_answer call never flags again a graded answer whose needs_review
\* flag another call has cleared.
ConcurrentGradesBothKept ==
    [][\A c \in Clients :
          GradeWriteBy(c) =>
              LET old == attempts[loc[c].id].graded_answers
                  new == attempts'[loc[c].id].graded_answers
              IN \A k \in 1..Len(old) :
                    ~old[k].needs_review => /\ k <= Len(new)
                                            /\ ~new[k].needs_review]_vars

\* Client c's save_answer call performs its UPDATE in this step, on an
\* attempt that has not been submitted.
SaveWriteBy(c) ==
    /\ pc[c] = "save_write"
    /\ pc'[c] = "idle"
    /\ loc[c].id \in Kept
    /\ attempts[loc[c].id].score = Null

\* C20: when two save-answer calls for different question ids on one attempt
\* overlap, neither overwrites the other: the UPDATE of a save-answer call
\* for question q keeps every entry of the answer snapshot that belongs to
\* another question.
ConcurrentSavesBothKept ==
    [][\A c \in Clients :
          SaveWriteBy(c) =>
              LET old == attempts[loc[c].id].answers
                  new == attempts'[loc[c].id].answers
              IN \A k \in 1..Len(old) :
                    old[k].question_id # loc[c].num =>
                        \E j \in 1..Len(new) : new[j] = old[k]]_vars

\* A save_answer call that succeeded on attempt i.
SaveCallOn(i) ==
    /\ calls' = calls + 1
    /\ resp' = Response("save_answer", i, "ok", 0, FALSE)

\* The positions of the answer snapshot that hold question q.
EntriesFor(answers, q) == {k \in 1..Len(answers) : answers[k].question_id = q}

\* No question id occurs twice in the answer snapshot.
OneEntryPerQuestion(answers) ==
    \A j, k \in 1..Len(answers) :
        answers[j].question_id = answers[k].question_id => j = k

\* C19: a successful save-answer call adds exactly one row to the audit log
\* (the rows already there are kept), leaves the snapshot with exactly one
\* entry for the saved question, carrying the saved value, keeps the entries
\* of the other questions and at most one entry per question id, and leaves
\* the attempt's status as it was.
SaveUpsertsAndLogs ==
    [][\A i \in Kept :
          SaveCallOn(i) =>
              LET old == attempts[i].answers
                  new == attempts'[i].answers
                  row == answer_logs'[Len(answer_logs')]
              IN /\ Len(answer_logs') = Len(answer_logs) + 1
                 /\ SubSeq(answer_logs', 1, Len(answer_logs)) = answer_logs
                 /\ row.attempt_id = i
                 /\ OneEntryPerQuestion(old) => OneEntryPerQuestion(new)
                 /\ Cardinality(EntriesFor(new, row.question_id)) = 1
                 /\ \A k \in EntriesFor(new, row.question_id) :
                        new[k] = Answer(row.question_id, row.answer_value)
                 /\ \A k \in 1..Len(old) :
                        old[k].question_id # row.question_id =>
                            \E j \in 1..Len(new) : new[j] = old[k]
                 /\ Len(new) <= Len(old) + 1
                 /\ attempts'[i].status = attempts[i].status]_vars

\* C19 witness: question q was saved with value 0 and then again with value
\* 1: the log holds both rows and the snapshot holds the one entry with 1.
SavedTwice ==
    \E i \in DOMAIN attempts, q \in SaveQuestionIds :
        LET n == Len(answer_logs)
        IN /\ resp = Response("save_answer", i, "ok", 0, FALSE)
           /\ n >= 2
           /\ answer_logs[n - 1] =
                  [attempt_id |-> i, question_id |-> q, answer_value |-> JInt(0)]
           /\ answer_logs[n] =
                  [attempt_id |-> i, question_id |-> q, answer_value |-> JInt(1)]
           /\ attempts[i].answers = << Answer(q, JInt(1)) >>

\* A step of the sweeper: the only step that moves neither the clock nor
\* the call counter.
SweeperPass ==
    /\ calls' = calls
    /\ now' = now
    /\ DOMAIN attempts' = DOMAIN attempts

\* The timeout rule applies to the attempt: pending or in_progress, expired.
Overdue(row) ==
    /\ row.status \in {"pending", "in_progress"}
    /\ row.expires_at <= now

\* C21: after a sweeper pass at time now, every attempt that was pending or
\* in_progress with expires_at <= now has status timeout, completed_at =
\* expires_at, passed = false, and score, max score and percentage equal to
\* their previous value, or 0 when previously unset; no other attempt
\* becomes timeout or has its scores or passed changed, and an attempt in
\* any status other than pending and in_progress is not changed at all.
SweeperTimesOutOverdue ==
    [][SweeperPass =>
          \A i \in DOMAIN attempts :
              LET old == attempts[i]
                  new == attempts'[i]
              IN IF Overdue(old)
                 THEN /\ new.status = "timeout"
                      /\ new.completed_at = old.expires_at
                      /\ new.passed = "false"
                      /\ new.score = IF old.score = Null THEN 0 ELSE old.score
                      /\ new.max_score = IF old.max_score = Null THEN 0 ELSE old.max_score
                      /\ new.percentage = IF old.percentage = Null THEN 0 ELSE old.percentage
                 ELSE /\ new.status = "timeout" => old.status = "timeout"
                      /\ new.score = old.score
                      /\ new.max_score = old.max_score
                      /\ new.percentage = old.percentage
                      /\ new.passed = old.passed
                      /\ old.status \notin {"pending", "in_progress"} => new = old]_vars

\* C21 witness: an attempt was invited, nothing else was called, and the
\* sweeper ran after its expiry: timeout, score 0, passed = false.
NeverStartedTimedOut ==
    \E i \in DOMAIN attempts :
        /\ calls = 1
        /\ resp.op = "create_invite"
        /\ attempts[i].status = "timeout"
        /\ attempts[i].started_at = Null
        /\ attempts[i].completed_at = attempts[i].expires_at
        /\ attempts[i].score = 0
        /\ attempts[i].max_score = 0
        /\ attempts[i].percentage = 0
        /\ attempts[i].passed = "false"

\* The attempt is in_progress, of a non-presentation test, and its last
\* heartbeat is set and older than the idle threshold.
IdleNow(row) ==
    /\ row.status = "in_progress"
    /\ tests[row.test_id].test_type # "presentation"
    /\ row.last_heartbeat_at # Null
    /\ row.last_heartbeat_at < now - IdleThresholdMinutes

\* The sweeper's step moves the attempt to escaped.
MovedToEscaped(i) ==
    /\ attempts[i].status # "escaped"
    /\ attempts'[i].status = "escaped"

\* C22 as stated: a sweeper pass moves to escaped exactly the attempts that
\* are in_progress, belong to a non-presentation test, and have a non-null
\* last heartbeat older than the idle threshold.
SweeperEscapesExactlyIdle ==
    [][SweeperPass =>
          \A i \in DOMAIN attempts : MovedToEscaped(i) <=> IdleNow(attempts[i])]_vars

\* C22 amended: a sweeper pass moves to escaped exactly the attempts that
\* are in_progress, belong to a non-presentation test, have a non-null last
\* heartbeat older than the idle threshold, and have not expired (an
\* expired one is timed out by the same pass); an in_progress attempt that
\* never sent a heartbeat, or of a presentation test, is never escaped by
\* the pass.
SweeperEscapesIdleUnexpired ==
    [][SweeperPass =>
          \A i \in DOMAIN attempts :
              /\ MovedToEscaped(i) <=> (IdleNow(attempts[i]) /\ ~Overdue(attempts[i]))
              /\ (IdleNow(attempts[i]) /\ Overdue(attempts[i]))
                     => attempts'[i].status = "timeout"]_vars

\* C22 witness: an unexpired in_progress attempt with an old heartbeat and
\* no violation was escaped by the sweeper at the current minute.
EscapedByIdleRule ==
    \E i \in DOMAIN attempts :
        /\ attempts[i].status = "escaped"
        /\ attempts[i].tab_switches = 0
        /\ attempts[i].completed_at = now
        /\ attempts[i].expires_at > now
        /\ attempts[i].last_heartbeat_at # Null
        /\ attempts[i].last_heartbeat_at < now - IdleThresholdMinutes

\* The outbox rows that carry a deadline_warning for attempt i.
WarningsFor(logs, i) ==
    {k \in 1..Len(logs) :
        logs[k].event_type = "deadline_warning" /\ logs[k].attempt_id = i}

NotifyingOps == {"create_invite", "submit", "submit_presentation"}

\* C24: a failure to enqueue the notification that follows a state
\* transition (invite created, test submitted, presentation submitted)
\* never makes the operation report an error: whenever a call of one of
\* these operations has inserted or changed an attempt row, the caller
\* receives the success response.
TransitionReportsSuccess ==
    [][( /\ calls' = calls + 1
         /\ resp'.op \in NotifyingOps
         /\ attempts' # attempts ) => resp'.result = "ok"]_vars

\* The workers that are inside run_once with job j claimed.
Holders(pcs, locs, j) == {w \in AiWorkers : pcs[w] # "idle" /\ locs[w].job_id = j}

\* The number of generate_test calls made for job j.
GenCallsIn(g, j) == IF j \in DOMAIN g THEN g[j] ELSE 0

\* C25: when two AI-job workers run run_once concurrently, each pending job
\* is moved pending -> running by at most one worker (a step that claims a
\* job takes a pending one, and no job is ever held by two workers) and
\* the generation pipeline is invoked at most once for that job.
JobClaimedOnce ==
    [][\A j \in 1..Len(ai_jobs') :
          /\ Cardinality(Holders(apc', aloc', j)) <= 1
          /\ GenCallsIn(gen_calls', j) <= 1
          /\ \A w \in AiWorkers :
                (w \in Holders(apc', aloc', j) /\ w \notin Holders(apc, aloc, j)) =>
                    /\ j <= Len(ai_jobs)
                    /\ ai_jobs[j].status = "pending"
                    /\ ai_jobs'[j].status = "running"
                    /\ Holders(apc, aloc, j) = {}]_vars

\* C25 witness: both workers are inside run_once at once, each with its
\* own job, and one of them has already called the generation pipeline.
TwoWorkersTwoJobs ==
    /\ \A w \in AiWorkers : apc[w] # "idle"
    /\ \A v, w \in AiWorkers : aloc[v].job_id = aloc[w].job_id => v = w
    /\ \A w \in AiWorkers : ai_jobs[aloc[w].job_id].status = "running"
    /\ \E w \in AiWorkers : GenCallsIn(gen_calls, aloc[w].job_id) = 1

\* C26: whenever the processing of a claimed AI job fails at any step after
\* the claim, the job ends with status failed and the error recorded: when
\* a worker leaves run_once, the job it had claimed is no longer running,
\* and it is succeeded or it is failed with an error message.
RunEndsSettled ==
    [][\A w \in AiWorkers :
          (apc[w] # "idle" /\ apc'[w] = "idle") =>
              LET job == ai_jobs'[aloc[w].job_id]
              IN \/ job.status = "succeeded"
                 \/ job.status = "failed" /\ job.error # "none"]_vars

\* The status changes an AI job may make.
AllowedAiEdges ==
    { << "pending", "running" >>, << "running", "succeeded" >>, << "running", "failed" >> }

\* C27: an AI job's status changes only along pending -> running ->
\* succeeded or pending -> running -> failed; a job that is succeeded or
\* failed is never claimed by run_once again, and its status, result and
\* error never change afterwards.
AiStatusFollowsEdges ==
    [][\A j \in 1..Len(ai_jobs) :
          /\ ai_jobs'[j].status # ai_jobs[j].status =>
                << ai_jobs[j].status, ai_jobs'[j].status >> \in AllowedAiEdges
          /\ ai_jobs[j].status \in {"succeeded", "failed"} =>
                /\ ai_jobs'[j] = ai_jobs[j]
                /\ Holders(apc', aloc', j) \subseteq Holders(apc, aloc, j)]_vars

\* C27 witness: one job has failed and the job enqueued after it was
\* claimed later and has succeeded; the failed one still carries its error.
OneFailedOneSucceeded ==
    /\ Len(ai_jobs) = 2
    /\ ai_jobs[1].status = "failed"
    /\ ai_jobs[1].error # "none"
    /\ ai_jobs[1].result = FALSE
    /\ ai_jobs[2].status = "succeeded"
    /\ ai_jobs[2].result = TRUE
    /\ GenCallsIn(gen_calls, 1) = 1

\* C28: under every interleaving of delete_attempt with start, submit and
\* the sweeper, an attempt row is physically removed only if its status is
\* pending at the moment of removal.
DeletedOnlyWhilePending ==
    [][\A i \in DOMAIN attempts :
          i \notin DOMAIN attempts' => attempts[i].status = "pending"]_vars

\* C29: for every submit, earned <= max_possible, percentage = 100 *
\* earned / max_possible (0 when max_possible = 0), and passed is true
\* exactly when percentage >= the test's passing score.
SubmitScoresBounded ==
    [][\A i \in Kept :
          SubmitCallOn(i) =>
              LET new == attempts'[i]
              IN /\ new.score <= new.max_score
                 /\ new.percentage =
                        IF new.max_score = 0 THEN 0
                        ELSE (100 * new.score) \div new.max_score
                 /\ new.passed =
                        BoolStr(new.percentage >= tests[new.test_id].passing_score)]_vars

\* A report_violation call on attempt i.
ViolationReportOn(i) ==
    /\ calls' = calls + 1
    /\ resp'.op = "report_violation"
    /\ resp'.id = i

\* C30: report_violation on an attempt whose status is not in_progress
\* changes nothing in the attempt row (nor in any other row) and returns
\* the current counter, with terminated set exactly for an escaped attempt.
ViolationOutsideProgressIsNoop ==
    [][\A i \in DOMAIN attempts :
          (ViolationReportOn(i) /\ attempts[i].status # "in_progress") =>
              /\ attempts' = attempts
              /\ resp'.count = attempts[i].tab_switches
              /\ resp'.terminated = (attempts[i].status = "escaped")]_vars

\* C30 witness: the third report on an attempt that the second report
\* escaped returned the counter 2 and terminated, and the row still holds
\* the two logged violations.
ThirdReportOnEscaped ==
    \E i \in DOMAIN attempts :
        /\ resp = Response("report_violation", i, "not_in_progress", MAX_VIOLATIONS, TRUE)
        /\ attempts[i].status = "escaped"
        /\ attempts[i].tab_switches = MAX_VIOLATIONS
        /\ Len(attempts[i].suspicious_activity) = MAX_VIOLATIONS
        /\ attempts[i].score = 0
        /\ attempts[i].passed = "false"

\* A submit_presentation call on attempt i.
PresentationCallOn(i) ==
    /\ calls' = calls + 1
    /\ resp'.op = "submit_presentation"
    /\ resp'.id = i

OpenAttemptUnscored ==
    \A i \in DOMAIN attempts :
        attempts[i].status \in {"pending", "in_progress"} =>
            /\ attempts[i].score = Null
            /\ attempts[i].percentage = Null

\* Worker w runs the scheduling UPDATE of run_once.
SchedulesRetry(w) == wpc[w] = "schedule" /\ wpc'[w] = "idle"

\* C33: after a failed delivery that left attempts = n < max_attempts (the
\* values run_once read back), run_once sets next_retry_at of that row to
\* now + min(3600, 30 * 2^(n-1)) seconds and the row is failed; no other step
\* writes next_retry_at, and a row with attempts >= max_attempts is never
\* scheduled and stays failed.
RetryScheduledWithBackoff ==
    [][/\ \A w \in Workers :
             SchedulesRetry(w) =>
                 LET n   == wloc[w].attempts
                     new == webhook_logs'[wloc[w].id]
                 IN  /\ n >= 1 /\ n < wloc[w].max_attempts
                     /\ new.status = "failed"
                     /\ new.attempts = n
                     /\ new.next_retry_at =
                            NowSeconds + (IF 30 * Pow2(n - 1) < 3600 THEN 30 * Pow2(n - 1)
                                          ELSE 3600)
       /\ \A r \in 1..Len(webhook_logs) :
             LET old == webhook_logs[r]
                 new == webhook_logs'[r]
             IN  /\ new.next_retry_at # old.next_retry_at =>
                        \E w \in Workers : SchedulesRetry(w) /\ wloc[w].id = r
                 /\ (old.status = "failed" /\ old.attempts >= old.max_attempts) =>
                        /\ new.status = "failed"
                        /\ new.next_retry_at = old.next_retry_at]_vars

\* C34: no step changes the access_token or the questions_snapshot of an
\* attempt that exists before and after it: both keep the values
\* create_invite stored.
TokenAndSnapshotFrozen ==
    [][\A i \in Kept :
          /\ attempts'[i].access_token = attempts[i].access_token
          /\ attempts'[i].questions_snapshot = attempts[i].questions_snapshot]_vars

\* C34 witness: a quiz attempt was submitted after the test's questions were
\* edited; its snapshot is still the list of the time of the invite.
SnapshotOutlivesEdit ==
    \E i \in DOMAIN attempts :
        /\ resp.op = "submit" /\ resp.id = i /\ resp.result = "ok"
        /\ attempts[i].test_id = "quiz"
        /\ attempts[i].questions_snapshot = QuestionsV1
        /\ tests["quiz"].questions = QuestionsV2
        /\ attempts[i].score # Null

\* The intake handler answers the request client c has in flight.
IntakeHandled(c) == pc[c] = "webhook_request" /\ pc'[c] = "idle"

\* The step adds exactly one outbox row: pending, with the event type and
\* the payload's attempt of the request rq.
EnqueuedAsSent(rq) ==
    /\ Len(webhook_logs') = Len(webhook_logs) + 1
    /\ SubSeq(webhook_logs', 1, Len(webhook_logs)) = webhook_logs
    /\ LET row == webhook_logs'[Len(webhook_logs')]
       IN /\ row.status = "pending"
          /\ row.event_type = rq.event
          /\ row.attempt_id = rq.id

\* C35 as stated: a request to the intake route is enqueued if and only if
\* it carries the correct shared secret: with it, exactly one new pending
\* row with the event type and payload sent; without it, it is rejected as
\* unauthorized and no row is added.
IntakeEnqueuesIffSecret ==
    [][\A c \in Clients :
          IntakeHandled(c) =>
              IF loc[c].secret = WebhookSecret
              THEN EnqueuedAsSent(loc[c])
              ELSE /\ resp'.result = "unauthorized"
                   /\ webhook_logs' = webhook_logs]_vars

\* C35, amended: a well-formed request whose event is test_assigned is
\* accepted and enqueued (one new pending row with the event type and
\* payload sent) only with the correct secret, and with it is enqueued
\* unless the outbox insert fails (error, no row); without the secret it is
\* rejected as unauthorized; with the secret and another event it is
\* rejected as unexpected_event; a body that does not deserialize is
\* rejected as a bad request.  No rejected request adds a row.
IntakeEnqueuesAssignedIffSecret ==
    [][\A c \in Clients :
          IntakeHandled(c) =>
              LET rq == loc[c]
              IN  /\ resp'.op = "handle_test_assigned"
                  /\ IF rq.malformed
                     THEN resp'.result = "bad_request"
                     ELSE IF rq.secret # WebhookSecret
                     THEN resp'.result = "unauthorized"
                     ELSE IF rq.event # "test_assigned"
                     THEN resp'.result = "unexpected_event"
                     ELSE resp'.result \in {"accepted", "error"}
                  /\ IF resp'.result = "accepted"
                     THEN EnqueuedAsSent(rq)
                     ELSE webhook_logs' = webhook_logs
                  /\ UNCHANGED << tests, attempts, next_attempt, answer_logs >>]_vars

\* C35 witness: a request with the secret was accepted and its row is in
\* the outbox, after a request without the secret was made.
IntakeAccepted ==
    /\ resp = Response("handle_test_assigned", resp.id, "accepted", 0, FALSE)
    /\ calls >= 2
    /\ Len(webhook_logs) = 1
    /\ webhook_logs[1].event_type = "test_assigned"
    /\ webhook_logs[1].attempt_id = resp.id

\* The 64-bit integer an answer value selects, compared with index c: the
\* value is an integer, or an object whose "selected" is one, and equals c.
SelectsIndex(a, c) == a.kind \in {"int", "object"} /\ a.hi = 0 /\ a.val = c

\* C36: after a submit, each multiple-choice question with correct index c
\* has earned its full points when the value submitted for it selects c,
\* and 0 for every other value: another 64-bit integer, a non-integer, or
\* no answer.
McqPointsIffIndexEqual ==
    [][\A i \in Kept :
          SubmitCallOn(i) =>
              LET questions == tests[attempts[i].test_id].questions
                  new == attempts'[i]
              IN \A k \in 1..Len(questions) :
                    questions[k].type = "multiple_choice" =>
                        LET a == CandidateAnswer(new.answers, new.graded_answers[k].question_id)
                        IN new.graded_answers[k].points_earned =
                               IF SelectsIndex(a, questions[k].correct_answer)
                               THEN questions[k].points ELSE 0]_vars

\* Whether x is the sum of the integers of s, taken without any width: the
\* sum is kept as high * 65536 + low.
RECURSIVE HighSum(_, _)
HighSum(s, i) == IF i > Len(s) THEN 0 ELSE (s[i] \div 65536) + HighSum(s, i + 1)

RECURSIVE LowSum(_, _)
LowSum(s, i) == IF i > Len(s) THEN 0 ELSE (s[i] % 65536) + LowSum(s, i + 1)

IsSumOf(x, s) ==
    /\ x \div 65536 = HighSum(s, 1) + (LowSum(s, 1) \div 65536)
    /\ x % 65536 = LowSum(s, 1) % 65536

\* C37: after a submit, for every question list and answer list,
\* max_possible is the sum of the points of all questions, earned is the
\* sum of points_earned over the graded answers, and there is exactly one
\* graded answer per question, in question order.
GradeTotalsAreSums ==
    [][\A i \in Kept :
          SubmitCallOn(i) =>
              LET questions == tests[attempts[i].test_id].questions
                  graded == attempts'[i].graded_answers
              IN /\ Len(graded) = Len(questions)
                 /\ \A k \in 1..Len(questions) :
                       /\ graded[k].question_id = Max(questions[k].id, k)
                       /\ graded[k].type = questions[k].type
                       /\ graded[k].max_points = questions[k].points
                 /\ IsSumOf(attempts'[i].max_score,
                            [k \in 1..Len(questions) |-> questions[k].points])
                 /\ IsSumOf(attempts'[i].score,
                            [k \in 1..Len(graded) |-> graded[k].points_earned])]_vars

\* C38: after a submit that leaves the status to the grading, the attempt
\* needs review exactly when the test has a short_answer question; every
\* short_answer question earns 0 and is flagged needs_review; a code
\* question earns 0 and is not flagged.
ReviewExactlyForShortAnswers ==
    [][\A i \in Kept :
          SubmitCallOn(i) =>
              LET questions == tests[attempts[i].test_id].questions
                  new == attempts'[i]
                  graded == new.graded_answers
                  open_ended == \E k \in 1..Len(questions) : questions[k].type = "short_answer"
              IN /\ new.status = IF open_ended THEN "needs_review" ELSE "completed"
                 /\ grade_mcq_only(questions, new.answers).needs_review = open_ended
                 /\ Len(graded) = Len(questions)
                 /\ \A k \in 1..Len(questions) :
                       /\ questions[k].type = "short_answer" =>
                              graded[k].points_earned = 0 /\ graded[k].needs_review
                       /\ questions[k].type = "code" =>
                              graded[k].points_earned = 0 /\ ~graded[k].needs_review
                       /\ questions[k].type = "multiple_choice" => ~graded[k].needs_review]_vars

\* C38 witness: a test with a short_answer question was submitted with an
\* answer to it; the question earned 0, is flagged, and the attempt needs
\* review.
ShortAnswerAwaitsReview ==
    \E i \in DOMAIN attempts :
        /\ resp = Response("submit", i, "ok", 0, FALSE)
        /\ attempts[i].status = "needs_review"
        /\ Len(attempts[i].graded_answers) = 2
        /\ attempts[i].graded_answers[2].type = "short_answer"
        /\ attempts[i].graded_answers[2].candidate_answer = JStr
        /\ attempts[i].graded_answers[2].needs_review
        /\ attempts[i].graded_answers[2].points_earned = 0
        /\ attempts[i].score = 1

\* C39: a sweeper pass applies the expiry rule before the idle rule: an
\* in_progress attempt that is both expired and idle for more than the
\* threshold ends the pass as timeout with completed_at = expires_at, never
\* as escaped.
ExpiryBeforeIdle ==
    [][SweeperPass =>
          \A i \in DOMAIN attempts :
              (IdleNow(attempts[i]) /\ attempts[i].expires_at <= now) =>
                  /\ attempts'[i].status = "timeout"
                  /\ attempts'[i].status # "escaped"
                  /\ attempts'[i].completed_at = attempts[i].expires_at
                  /\ attempts'[i].completed_at # now]_vars

\* C39 witness: a started quiz attempt whose last heartbeat is older than
\* the threshold was swept after its expiry: it is timeout, completed at
\* its expiry.
IdleAndExpiredTimedOut ==
    \E i \in DOMAIN attempts :
        /\ attempts[i].status = "timeout"
        /\ attempts[i].test_id = "quiz"
        /\ attempts[i].started_at # Null
        /\ attempts[i].last_heartbeat_at # Null
        /\ attempts[i].last_heartbeat_at < now - IdleThresholdMinutes
        /\ attempts[i].expires_at <= now
        /\ attempts[i].completed_at = attempts[i].expires_at
        /\ attempts[i].score = 0
        /\ resp.op = "heartbeat"

\* C40: every attempt whose status is escaped has passed = false and
\* score = 0, whether it escaped through violations or through the
\* sweeper's idle rule.
EscapedScoresZero ==
    \A i \in DOMAIN attempts :
        attempts[i].status = "escaped" =>
            /\ attempts[i].passed = "false"
            /\ attempts[i].score = 0

====
